---- MODULE Spec2Model ----
(***************************************************************************)
(* WallPlanner solver of the truck load planner (src/js/solver.js).        *)
(*                                                                         *)
(* The solver is one synchronous function, wallPlannerSolve(cases, config). *)
(* The model follows its control flow phase by phase: the variable pc is   *)
(* the position in the function body, the other variables are its local    *)
(* collections.  Lengths are whole inches; a comparison against a half-inch *)
(* tolerance such as  a > b + 0.5  is written doubled,  2*a > 2*b + 1.      *)
(* Ratios against WP_MIN_FILL, WP_GAP_THRESH and WP_ABSORB_THRESH are      *)
(* written cross-multiplied.  Case objects are referred to by their index  *)
(* in the input list.                                                      *)
(***************************************************************************)
EXTENDS Integers, Sequences, FiniteSets, TLC

VARIABLES
    cases,        \* the input case list
    config,       \* truckWidth, truckLength, truckHeight, deptPriority
    pc,           \* position in wallPlannerSolve
    inventories,  \* Phase 0 inventory groups
    cur,          \* index of the inventory the Phase 1.5 / Phase 2 loop is at
    wall,         \* Phase 2: first wall of the current inventory
    floorWalls,   \* Phase 1.5 walls and load-bar spacers
    fullWalls,    \* Phase 2 walls
    orphanPools,  \* Phase 2 orphan pools
    orphanWalls,  \* Phase 3B walls
    stages,       \* Phase 4 stages
    placements,   \* result.placements
    wallSections, \* result.wallSections
    violations    \* output of wpValidatePlacements

vars == <<cases, config, pc, inventories, cur, wall, floorWalls, fullWalls,
          orphanPools, orphanWalls, stages, placements, wallSections, violations>>

----------------------------------------------------------------------------
(* Bounds of the explored inputs *)

MaxRows == 3
MaxCases == 6
MaxSpin == 2
MaxScenarioRows == 2

----------------------------------------------------------------------------
(* Program constants *)

FULL_WALL == 1
KB_COMBO == 2
TIGHT_FIT == 3
ORPHAN_SAME_DEPT == 4
ORPHAN_MIXED == 5

WP_LOADBAR_GAP == 2
WP_DEPTH_STRICT == 2
WP_DEPTH_RELAXED == 8
WP_STAGE_HEIGHT_TOL == 15

\* WP_MIN_FILL = 0.80, WP_GAP_THRESH = 0.95, WP_ABSORB_THRESH = 0.50 as
\* fractions num/den:  fill/W < t  is  fill*den < num*W.
WP_MIN_FILL == <<4, 5>>
WP_GAP_THRESH == <<19, 20>>
WP_ABSORB_THRESH == <<1, 2>>

----------------------------------------------------------------------------
(* Arithmetic and sequence helpers *)

Max(a, b) == IF a >= b THEN a ELSE b
Min(a, b) == IF a <= b THEN a ELSE b
Abs(a) == IF a >= 0 THEN a ELSE -a

\* Math.round of the rational n/dd (dd > 0): round half up.
RoundDiv(n, dd) == (2 * n + dd) \div (2 * dd)

Range(s) == {s[i] : i \in 1..Len(s)}

RECURSIVE SumSeq(_)
SumSeq(s) == IF s = <<>> THEN 0 ELSE Head(s) + SumSeq(Tail(s))

RECURSIVE MaxSeq(_)
MaxSeq(s) == IF Len(s) = 1 THEN s[1] ELSE Max(Head(s), MaxSeq(Tail(s)))

RECURSIVE MinSeq(_)
MinSeq(s) == IF Len(s) = 1 THEN s[1] ELSE Min(Head(s), MinSeq(Tail(s)))

RECURSIVE Flatten(_)
Flatten(ss) == IF ss = <<>> THEN <<>> ELSE Head(ss) \o Flatten(Tail(ss))

\* The distinct elements of s in order of first appearance.
RECURSIVE Dedup(_)
Dedup(s) ==
    IF s = <<>> THEN <<>>
    ELSE IF \E i \in 1..(Len(s) - 1) : s[i] = s[Len(s)]
         THEN Dedup(SubSeq(s, 1, Len(s) - 1))
         ELSE Append(Dedup(SubSeq(s, 1, Len(s) - 1)), s[Len(s)])

Contains(s, x) == \E i \in 1..Len(s) : s[i] = x

\* Array.prototype.sort with a comparator (stable).  Before(a, b) is
\* "comparator(a, b) < 0"; every comparator of the solver orders by numeric
\* keys, so an element's position is the number of elements that sort before
\* it plus the number of equal elements that precede it.
StableSort(s, Before(_, _)) ==
    LET n == Len(s)
        rank(i) == 1 + Cardinality({j \in 1..n :
                        \/ Before(s[j], s[i])
                        \/ j < i /\ ~Before(s[i], s[j])})
    IN [p \in 1..n |-> s[CHOOSE i \in 1..n : rank(i) = p]]

----------------------------------------------------------------------------
(* Property keys of a JavaScript object *)

\* The integer a key string denotes when it is an array index ("2", "10"),
\* -1 for every other string.
IndexValue(key) ==
    CASE key = "2" -> 2
      [] key = "10" -> 10
      [] OTHER -> -1

\* Order in which Object.keys / Object.entries / for-in list the keys that
\* were inserted in the order ins: integer keys ascending, then the other
\* strings in insertion order.
ObjectKeys(ins) ==
    LET idx == SelectSeq(ins, LAMBDA k : IndexValue(k) >= 0)
        str == SelectSeq(ins, LAMBDA k : IndexValue(k) < 0)
    IN StableSort(idx, LAMBDA a, b : IndexValue(a) < IndexValue(b)) \o str

----------------------------------------------------------------------------
(* Inputs *)

\* Rows of the inventory sheet.  The sheet parser expands a row with
\* quantity q into q consecutive case objects that differ only in their name.
\* Every field the solver reads is listed; rotation is the parser's 0.
Catalog == {
    [group |-> "A",  dept |-> "LX",   width |-> 30,  depth |-> 30,  height |-> 40,
     stackable |-> FALSE, maxStack |-> 2, isFloor |-> FALSE, allowRotation |-> TRUE],
    [group |-> "B",  dept |-> "ZZ",   width |-> 30,  depth |-> 20,  height |-> 40,
     stackable |-> FALSE, maxStack |-> 1, isFloor |-> FALSE, allowRotation |-> FALSE],
    [group |-> "B",  dept |-> "ZZ",   width |-> 30,  depth |-> 28,  height |-> 40,
     stackable |-> FALSE, maxStack |-> 1, isFloor |-> FALSE, allowRotation |-> TRUE],
    [group |-> "2",  dept |-> "",     width |-> 30,  depth |-> 36,  height |-> 40,
     stackable |-> TRUE,  maxStack |-> 3, isFloor |-> FALSE, allowRotation |-> FALSE],
    [group |-> "10", dept |-> "SON",  width |-> 50,  depth |-> 20,  height |-> 30,
     stackable |-> FALSE, maxStack |-> 1, isFloor |-> FALSE, allowRotation |-> TRUE],
    [group |-> "F",  dept |-> "CARP", width |-> 45,  depth |-> 100, height |-> 60,
     stackable |-> FALSE, maxStack |-> 1, isFloor |-> TRUE,  allowRotation |-> FALSE],
    [group |-> "W",  dept |-> "SON",  width |-> 110, depth |-> 40,  height |-> 40,
     stackable |-> FALSE, maxStack |-> 1, isFloor |-> FALSE, allowRotation |-> FALSE],
    [group |-> "G",  dept |-> "CARP", width |-> 100, depth |-> 100, height |-> 60,
     stackable |-> FALSE, maxStack |-> 1, isFloor |-> TRUE,  allowRotation |-> TRUE]
}

\* Rows of the scenarios: a case of height 0 (the parser drops a row only
\* when all three dimensions are 0), a square case half the truck wide, the
\* 30x20 and 30x24 groups of one or of two departments, a row of group Q
\* that may not be rotated, a narrow case as tall as the truck and a low case
\* half the truck wide.
ScenarioCatalog == {
    [group |-> "Z",  dept |-> "LX",   width |-> 30,  depth |-> 20,  height |-> 0,
     stackable |-> FALSE, maxStack |-> 1, isFloor |-> FALSE, allowRotation |-> TRUE],
    [group |-> "H",  dept |-> "LX",   width |-> 50,  depth |-> 50,  height |-> 40,
     stackable |-> FALSE, maxStack |-> 1, isFloor |-> FALSE, allowRotation |-> TRUE],
    [group |-> "P",  dept |-> "LX",   width |-> 30,  depth |-> 20,  height |-> 40,
     stackable |-> FALSE, maxStack |-> 1, isFloor |-> FALSE, allowRotation |-> TRUE],
    [group |-> "Q",  dept |-> "LX",   width |-> 30,  depth |-> 24,  height |-> 40,
     stackable |-> FALSE, maxStack |-> 1, isFloor |-> FALSE, allowRotation |-> TRUE],
    [group |-> "Q",  dept |-> "SON",  width |-> 30,  depth |-> 24,  height |-> 40,
     stackable |-> FALSE, maxStack |-> 1, isFloor |-> FALSE, allowRotation |-> TRUE],
    [group |-> "Q",  dept |-> "LX",   width |-> 30,  depth |-> 24,  height |-> 40,
     stackable |-> FALSE, maxStack |-> 1, isFloor |-> FALSE, allowRotation |-> FALSE],
    [group |-> "N",  dept |-> "LX",   width |-> 16,  depth |-> 48,  height |-> 96,
     stackable |-> FALSE, maxStack |-> 1, isFloor |-> FALSE, allowRotation |-> FALSE],
    [group |-> "L",  dept |-> "LX",   width |-> 50,  depth |-> 20,  height |-> 10,
     stackable |-> FALSE, maxStack |-> 1, isFloor |-> FALSE, allowRotation |-> FALSE]
}

\* truck.interiorWidth, interiorLength, interiorHeight of the selected truck.
Truck(len) == [truckWidth |-> 98, truckLength |-> len, truckHeight |-> 96]

Trucks == { Truck(240), Truck(320) }

\* A sheet: at most MaxRows rows, each a catalog entry with a quantity, at
\* most MaxCases cases in all.
Sheets ==
    UNION { { r \in [1..n -> Catalog \X (1..MaxCases)] :
                SumSeq([i \in 1..n |-> r[i][2]]) <= MaxCases } : n \in 0..MaxRows }

\* The sheets of at most MaxScenarioRows rows that hold a scenario row.
ScenarioSheets ==
    UNION { { r \in [1..n -> (Catalog \cup ScenarioCatalog) \X (1..MaxCases)] :
                /\ SumSeq([i \in 1..n |-> r[i][2]]) <= MaxCases
                /\ \E i \in 1..n : r[i][1] \in ScenarioCatalog } : n \in 1..MaxScenarioRows }

\* The calls of the solver: every sheet with the 240" truck, the sheets of at
\* most one row with the longer truck too.
Inputs ==
    { in \in (Sheets \cup ScenarioSheets) \X Trucks :
        in[2].truckLength = 240 \/ Len(in[1]) <= 1 }

\* parseSheetData: quantity expansion of the rows into case objects.
RECURSIVE ParseSheet(_)
ParseSheet(rows) ==
    IF rows = <<>> THEN <<>>
    ELSE LET prev == ParseSheet(SubSeq(rows, 1, Len(rows) - 1))
             row == rows[Len(rows)]
         IN prev \o [q \in 1..row[2] |->
                [index |-> Len(prev) + q, group |-> row[1].group, dept |-> row[1].dept,
                 width |-> row[1].width, depth |-> row[1].depth, height |-> row[1].height,
                 stackable |-> row[1].stackable, maxStack |-> row[1].maxStack,
                 isFloor |-> row[1].isFloor, allowRotation |-> row[1].allowRotation,
                 rotation |-> 0]]

\* c.dept || 'GENERAL'
DeptOf(c) == IF c.dept = "" THEN "GENERAL" ELSE c.dept

KnownDepts == {"LX", "SON", "CARP", "VDO", "PROPS", "COST", "ADM"}
KnownPriority(d) ==
    CASE d = "LX" -> 1 [] d = "SON" -> 2 [] d = "CARP" -> 3 [] d = "VDO" -> 4
      [] d = "PROPS" -> 5 [] d = "COST" -> 6 [] d = "ADM" -> 7

\* buildDeptPriority: the second loop, over the departments without a
\* priority yet; nextPri skips the values already in use.
RECURSIVE FillUnknown(_, _, _)
FillUnknown(order, priority, nextPri) ==
    IF order = <<>> THEN priority
    ELSE LET d == Head(order)
         IN IF d \in DOMAIN priority
            THEN FillUnknown(Tail(order), priority, nextPri)
            ELSE LET used == {priority[x] : x \in DOMAIN priority}
                     n == CHOOSE v \in nextPri..(nextPri + Cardinality(used)) :
                              /\ v \notin used
                              /\ \A u \in nextPri..(v - 1) : u \in used
                 IN FillUnknown(Tail(order),
                                [x \in DOMAIN priority \cup {d} |->
                                     IF x = d THEN n ELSE priority[x]],
                                n + 1)

buildDeptPriority(cs) ==
    LET deptOrder == Dedup([i \in 1..Len(cs) |-> DeptOf(cs[i])])
        seeded == [d \in Range(deptOrder) \cap KnownDepts |-> KnownPriority(d)]
    IN FillUnknown(deptOrder, seeded, 1)

\* deptPriority[dept] || 99
DeptPri(dept) == IF dept \in DOMAIN config.deptPriority THEN config.deptPriority[dept] ELSE 99

WP_TRUCK_WIDTH == config.truckWidth
TruckHeight == config.truckHeight

----------------------------------------------------------------------------
(* Group names and the helpers of wallPlannerSolve *)

\* A group name is a group tag, optionally followed by the suffix
\* " (<w>x<d>x<h>)" that Phase 0 gives to the parts of a split group.
GroupName(tag) == [tag |-> tag, sfx |-> <<>>]
SplitName(tag, w, d, h) == [tag |-> tag, sfx |-> <<w, d, h>>]

\* c.group || c.subgroup || c.nom  (the parser sets group on every case)
CaseGroup(c) == c.group

\* sg.replace(/\s*\(\d+x\d+\)$/, ''): removes a trailing suffix made of
\* exactly two numbers.
StripSuffix(sg) == IF Len(sg.sfx) = 2 THEN GroupName(sg.tag) ELSE sg

\* cases.find(c => c.group === sg || c.subgroup === sg): index of the first
\* case whose group string is sg, 0 when there is none.
FindGroup(sg) ==
    LET hits == {i \in 1..Len(cases) : GroupName(cases[i].group) = sg}
    IN IF hits = {} THEN 0 ELSE CHOOSE i \in hits : \A j \in hits : i <= j

\* c ? (c.dept || 'GENERAL') : cb ? (cb.dept || 'GENERAL') : 'GENERAL'
DeptOfFound(c, cb) ==
    IF c > 0 THEN DeptOf(cases[c])
    ELSE IF cb > 0 THEN DeptOf(cases[cb]) ELSE "GENERAL"

wpGetDept(sg) == DeptOfFound(FindGroup(sg), FindGroup(StripSuffix(sg)))

\* Majority department of a wall: first entry of the department counts
\* sorted by descending count.
DeptCount(ds, d) == Cardinality({i \in 1..Len(ds) : ds[i] = d})

MajorityDept(ds) ==
    StableSort(ObjectKeys(Dedup(ds)), LAMBDA a, b : DeptCount(ds, a) > DeptCount(ds, b))[1]

wpWallDept(w) == MajorityDept([i \in 1..Len(w.subgroups) |-> wpGetDept(w.subgroups[i])])

\* The test of the rotation oracle for a case of width w and depth d in a
\* truck of width tw, all lengths in 1/unit of an inch: the 90 degree
\* orientation is returned when the sides differ by 0.5" or more and it
\* fills more than 0.5" more of the row, or fills the row to within less
\* than 0.5" with more cases per row.
TurnsAt(w, d, tw, unit) ==
    LET iprDef == tw \div w
        fillDef == iprDef * w
        iprRot == tw \div d
        fillRot == iprRot * d
    IN /\ 2 * Abs(w - d) >= unit
       /\ \/ 2 * fillRot > 2 * fillDef + unit
          \/ 2 * Abs(fillRot - fillDef) < unit /\ iprRot > iprDef

\* Rotation oracle: <<w, d, rot>> for a case (lengths in whole inches).
wpBestRotation(c) ==
    IF c.allowRotation /\ TurnsAt(c.width, c.depth, WP_TRUCK_WIDTH, 1)
    THEN <<c.depth, c.width, (c.rotation + 90) % 360>>
    ELSE <<c.width, c.depth, c.rotation>>

\* wpResolveStacking: <<stackable, maxStack>>; maxStack || 1.
wpResolveStacking(c) == <<c.stackable, IF c.maxStack = 0 THEN 1 ELSE c.maxStack>>

\* new Set(heights.map(h => Math.round(h * 10))).size <= 1
IsFlatTop(items) == Cardinality({items[i].stackedH : i \in 1..Len(items)}) <= 1

----------------------------------------------------------------------------
(* Phase 0: split mixed groups *)

\* The inventory record built from the cases ids of one dimension group;
\* the group attributes are those of the case first.
Inventory(sg, first, ids) ==
    LET c == cases[first]
        best == wpBestRotation(c)
        stacking == wpResolveStacking(c)
        h == cases[ids[1]].height
    IN [sg |-> sg, w |-> best[1], d |-> best[2], h |-> h, rot |-> best[3],
        stackable |-> stacking[1], maxStack |-> stacking[2],
        stackedH |-> h * stacking[2], cases |-> ids,
        dept |-> c.dept, isFloor |-> c.isFloor, allowRotation |-> c.allowRotation]

DimKey(c) == <<c.width, c.depth, c.height>>

\* The inventories of one group tag.
GroupInventories(tag) ==
    LET grp == SelectSeq([i \in 1..Len(cases) |-> i], LAMBDA i : CaseGroup(cases[i]) = tag)
        keys == Dedup([k \in 1..Len(grp) |-> DimKey(cases[grp[k]])])
        dg(key) == SelectSeq(grp, LAMBDA i : DimKey(cases[i]) = key)
    IN IF Len(keys) = 1
       THEN << Inventory(GroupName(tag), grp[1], dg(keys[1])) >>
       ELSE [k \in 1..Len(keys) |->
                Inventory(SplitName(tag, keys[k][1], keys[k][2], keys[k][3]),
                          dg(keys[k])[1], dg(keys[k]))]

Phase0Inventories ==
    LET sgKeys == ObjectKeys(Dedup([i \in 1..Len(cases) |-> CaseGroup(cases[i])]))
    IN Flatten([k \in 1..Len(sgKeys) |-> GroupInventories(sgKeys[k])])

----------------------------------------------------------------------------
(* Columns and walls *)

\* One column: the first ids of a group or pool p stacked at offset x.
Column(p, x, ids) ==
    [sg |-> p.sg, w |-> p.w, d |-> p.d, h |-> p.h, rot |-> p.rot, xOff |-> x,
     stackCount |-> Len(ids), stackedH |-> p.h * Len(ids), cases |-> ids]

\* Math.min(maxStack, cases.length)
StackSize(p, ids) == Min(p.maxStack, Len(ids))

\* while (cases.length > 0 && x + w <= WP_TRUCK_WIDTH) { push a column }
\* Result: the columns appended to items, the cases left, the final x.
RECURSIVE PackColumns(_, _, _, _)
PackColumns(p, ids, x, items) ==
    IF Len(ids) > 0 /\ x + p.w <= WP_TRUCK_WIDTH
    THEN LET stack == StackSize(p, ids)
         IN PackColumns(p, SubSeq(ids, stack + 1, Len(ids)), x + p.w,
                        Append(items, Column(p, x, SubSeq(ids, 1, stack))))
    ELSE [items |-> items, rest |-> ids, x |-> x]

MaxHeightOf(items) ==
    IF items = <<>> THEN 0 ELSE MaxSeq([i \in 1..Len(items) |-> items[i].stackedH])

Wall(items, widthFill, maxHeight, depth, subgroups, reliability) ==
    [items |-> items, widthFill |-> widthFill, maxHeight |-> maxHeight,
     depth |-> depth, isFlatTop |-> IsFlatTop(items), subgroups |-> subgroups,
     reliability |-> reliability, isLoadBar |-> FALSE]

LoadBar ==
    [items |-> <<>>, widthFill |-> 0, maxHeight |-> 0, depth |-> WP_LOADBAR_GAP,
     isFlatTop |-> TRUE, subgroups |-> <<GroupName("LOADBAR")>>,
     reliability |-> FULL_WALL, isLoadBar |-> TRUE]

\* widthFill / WP_TRUCK_WIDTH < num/den
FillBelow(widthFill, t) == widthFill * t[2] < t[1] * WP_TRUCK_WIDTH

Pool(inv, ids) ==
    [sg |-> inv.sg, w |-> inv.w, d |-> inv.d, h |-> inv.h, rot |-> inv.rot,
     stackable |-> inv.stackable, maxStack |-> inv.maxStack, stackedH |-> inv.stackedH,
     cases |-> ids, dept |-> inv.dept, allowRotation |-> inv.allowRotation]

\* Number of walls without a column (load bars aside).
EmptyWalls(ws) == Cardinality({i \in 1..Len(ws) : ~ws[i].isLoadBar /\ Len(ws[i].items) = 0})

CasesOfItems(items) == Flatten([i \in 1..Len(items) |-> items[i].cases])

----------------------------------------------------------------------------
(* Initial state and the entry of wallPlannerSolve *)

Init ==
    /\ \E in \in Inputs :
          /\ cases = ParseSheet(in[1])
          /\ config = [truckWidth |-> in[2].truckWidth, truckLength |-> in[2].truckLength,
                       truckHeight |-> in[2].truckHeight,
                       deptPriority |-> buildDeptPriority(ParseSheet(in[1]))]
    /\ pc = "start"
    /\ inventories = <<>>
    /\ cur = 0
    /\ wall = <<>>
    /\ floorWalls = <<>>
    /\ fullWalls = <<>>
    /\ orphanPools = <<>>
    /\ orphanWalls = <<>>
    /\ stages = <<>>
    /\ placements = <<>>
    /\ wallSections = <<>>
    /\ violations = <<>>

\* Variant: no case list counts as empty.
IsEmptyInputNever(cs) == FALSE

\* !cases.length
IsEmptyInput(cs) == Len(cs) = 0

\* if (!cases.length) return { placements: [], wallSections: [] }
EmptyReturn ==
    /\ pc = "start"
    /\ IsEmptyInput(cases)
    /\ pc' = "done"
    /\ UNCHANGED <<cases, config, inventories, cur, wall, floorWalls, fullWalls,
                   orphanPools, orphanWalls, stages, placements, wallSections, violations>>

Phase0 ==
    /\ pc = "start"
    /\ ~IsEmptyInput(cases)
    /\ inventories' = Phase0Inventories
    /\ cur' = 1
    /\ pc' = "floor"
    /\ UNCHANGED <<cases, config, wall, floorWalls, fullWalls, orphanPools,
                   orphanWalls, stages, placements, wallSections, violations>>

----------------------------------------------------------------------------
(* Phase 1.5: floor panels *)

\* One floor wall: up to perRow cases of the floor group, one per column.
FloorWallOf(fInv) ==
    LET perRow == WP_TRUCK_WIDTH \div fInv.w
        n == Min(perRow, Len(fInv.cases))
        items == [col \in 1..n |->
                    [sg |-> fInv.sg, w |-> fInv.w, d |-> fInv.d, h |-> fInv.h,
                     rot |-> fInv.rot, xOff |-> (col - 1) * fInv.w, stackCount |-> 1,
                     stackedH |-> fInv.h, cases |-> <<fInv.cases[col]>>]]
    IN [items |-> items, widthFill |-> n * fInv.w, maxHeight |-> fInv.h,
        depth |-> fInv.d, isFlatTop |-> TRUE, subgroups |-> <<fInv.sg>>,
        reliability |-> FULL_WALL, isLoadBar |-> FALSE]

\* Variant: a load bar follows every floor wall, the last one too.
FloorPushAlways(fw, rest) == <<fw, LoadBar>>

\* The walls one iteration of the floor loop pushes: the wall, and a load
\* bar when cases of the group remain.
FloorPush(fw, rest) == IF Len(rest) > 0 THEN <<fw, LoadBar>> ELSE <<fw>>

\* One iteration of  while (fInv.cases.length > 0).  An iteration that takes
\* no case repeats forever, pushing an empty wall and a load bar each time;
\* the model keeps at most MaxSpin such pairs.
FloorWall ==
    /\ pc = "floor"
    /\ cur <= Len(inventories)
    /\ inventories[cur].isFloor
    /\ Len(inventories[cur].cases) > 0
    /\ \E fw \in {FloorWallOf(inventories[cur])} :
          /\ inventories' = [inventories EXCEPT ![cur].cases =
                                SubSeq(@, Len(fw.items) + 1, Len(@))]
          /\ floorWalls' = IF Len(fw.items) = 0 /\ EmptyWalls(floorWalls) >= MaxSpin
                           THEN floorWalls
                           ELSE floorWalls \o FloorPush(fw,
                                    SubSeq(inventories[cur].cases, Len(fw.items) + 1,
                                           Len(inventories[cur].cases)))
    /\ UNCHANGED <<cases, config, pc, cur, wall, fullWalls, orphanPools,
                   orphanWalls, stages, placements, wallSections, violations>>

\* The floor loop passes on to the next inventory group.
FloorNext ==
    /\ pc = "floor"
    /\ cur <= Len(inventories)
    /\ ~inventories[cur].isFloor \/ Len(inventories[cur].cases) = 0
    /\ cur' = cur + 1
    /\ UNCHANGED <<cases, config, pc, inventories, wall, floorWalls, fullWalls,
                   orphanPools, orphanWalls, stages, placements, wallSections, violations>>

FloorDone ==
    /\ pc = "floor"
    /\ cur > Len(inventories)
    /\ pc' = "phase2"
    /\ cur' = 1
    /\ UNCHANGED <<cases, config, inventories, wall, floorWalls, fullWalls,
                   orphanPools, orphanWalls, stages, placements, wallSections, violations>>

----------------------------------------------------------------------------
(* Phase 2: full walls of a single group *)

\* A single-group wall packed from the cases ids of the inventory inv.
GridWallOf(inv, g) ==
    [wall |-> Wall(g.items, g.x, MaxHeightOf(g.items), inv.d, <<inv.sg>>,
                   IF FillBelow(g.x, WP_MIN_FILL) THEN ORPHAN_SAME_DEPT ELSE FULL_WALL),
     rest |-> g.rest]

GridWall(inv, ids) == GridWallOf(inv, PackColumns(inv, ids, 0, <<>>))

\* orphanCols * inv.w >= WP_TRUCK_WIDTH * WP_MIN_FILL
EnoughForWall(inv, n) == n * inv.w * WP_MIN_FILL[2] >= WP_TRUCK_WIDTH * WP_MIN_FILL[1]

\* Variant: every first wall is dissolved.
KeepsFirstWallNever(w) == FALSE

\* The end of the loop body: a first wall below WP_MIN_FILL is dissolved into
\* an orphan pool, any other first wall joins the full walls.
KeepsFirstWall(w) == ~FillBelow(w.widthFill, WP_MIN_FILL)

\* Variant: the dissolved wall's cases are not handed to an orphan pool.
CloseFirstWallDropping(inv, w, pools, walls) ==
    IF KeepsFirstWall(w)
    THEN [pools |-> pools, walls |-> Append(walls, w)]
    ELSE [pools |-> pools, walls |-> walls]

CloseFirstWall(inv, w, pools, walls) ==
    IF KeepsFirstWall(w)
    THEN [pools |-> pools, walls |-> Append(walls, w)]
    ELSE [pools |-> Append(pools, Pool(inv, CasesOfItems(w.items))), walls |-> walls]

\* Too few leftovers: they go to an orphan pool.
LeftoverPool(inv, rest, pools) ==
    IF Len(rest) > 0 THEN Append(pools, Pool(inv, rest)) ELSE pools

Phase2Skip ==
    /\ pc = "phase2"
    /\ cur <= Len(inventories)
    /\ inventories[cur].isFloor \/ Len(inventories[cur].cases) = 0
    /\ cur' = cur + 1
    /\ UNCHANGED <<cases, config, pc, inventories, wall, floorWalls, fullWalls,
                   orphanPools, orphanWalls, stages, placements, wallSections, violations>>

\* The first wall of the group, and the leftover decision.  When the
\* leftover is too small for another wall the loop body ends here.
Phase2Wall ==
    /\ pc = "phase2"
    /\ cur <= Len(inventories)
    /\ ~inventories[cur].isFloor
    /\ Len(inventories[cur].cases) > 0
    /\ \E g \in {GridWall(inventories[cur], inventories[cur].cases)} :
          IF Len(g.rest) > 0 /\ EnoughForWall(inventories[cur], Len(g.rest))
          THEN /\ inventories' = [inventories EXCEPT ![cur].cases = g.rest]
               /\ wall' = g.wall
               /\ pc' = "phase2more"
               /\ UNCHANGED <<cur, fullWalls, orphanPools>>
          ELSE \E r \in {CloseFirstWall(inventories[cur], g.wall,
                                        LeftoverPool(inventories[cur], g.rest, orphanPools),
                                        fullWalls)} :
                  /\ inventories' = [inventories EXCEPT ![cur].cases = <<>>]
                  /\ orphanPools' = r.pools
                  /\ fullWalls' = r.walls
                  /\ cur' = cur + 1
                  /\ UNCHANGED <<wall, pc>>
    /\ UNCHANGED <<cases, config, floorWalls, orphanWalls, stages, placements,
                   wallSections, violations>>

\* One iteration of the continuation loop  while (inv.cases.length > 0).
\* An iteration that takes no case repeats forever, pushing an empty wall
\* each time; the model keeps at most MaxSpin of them.
Phase2More ==
    /\ pc = "phase2more"
    /\ Len(inventories[cur].cases) > 0
    /\ \E g \in {GridWall(inventories[cur], inventories[cur].cases)} :
          /\ inventories' = [inventories EXCEPT ![cur].cases = g.rest]
          /\ fullWalls' = IF Len(g.wall.items) = 0 /\ EmptyWalls(fullWalls) >= MaxSpin
                          THEN fullWalls
                          ELSE Append(fullWalls, [g.wall EXCEPT !.isFlatTop = TRUE])
    /\ UNCHANGED <<cases, config, pc, cur, wall, floorWalls, orphanPools,
                   orphanWalls, stages, placements, wallSections, violations>>

Phase2Close ==
    /\ pc = "phase2more"
    /\ Len(inventories[cur].cases) = 0
    /\ \E r \in {CloseFirstWall(inventories[cur], wall, orphanPools, fullWalls)} :
          /\ orphanPools' = r.pools
          /\ fullWalls' = r.walls
    /\ wall' = <<>>
    /\ cur' = cur + 1
    /\ pc' = "phase2"
    /\ UNCHANGED <<cases, config, inventories, floorWalls, orphanWalls, stages,
                   placements, wallSections, violations>>

Phase2Done ==
    /\ pc = "phase2"
    /\ cur > Len(inventories)
    /\ pc' = "gapfill"
    /\ UNCHANGED <<cases, config, inventories, cur, wall, floorWalls, fullWalls,
                   orphanPools, orphanWalls, stages, placements, wallSections, violations>>

----------------------------------------------------------------------------
(* Phase 2.5: gap-fill orphans into full walls with gaps *)

AddSubgroup(subgroups, sg) == IF Contains(subgroups, sg) THEN subgroups ELSE Append(subgroups, sg)

\* gap >= pool.w - 0.5
GapAdmits(gap, pool) == 2 * gap >= 2 * pool.w - 1

\* Math.abs(wall.depth - pool.d) > 8
DepthApart(a, b) == Abs(a - b) > 8

\* while (pool.cases.length > 0 && gap >= pool.w - 0.5) { append a column }
RECURSIVE GapFillPool(_, _, _)
GapFillPool(w, gap, pool) ==
    IF Len(pool.cases) > 0 /\ GapAdmits(gap, pool)
    THEN LET stack == StackSize(pool, pool.cases)
             col == Column(pool, w.widthFill, SubSeq(pool.cases, 1, stack))
         IN GapFillPool([w EXCEPT !.items = Append(@, col),
                                  !.widthFill = @ + pool.w,
                                  !.maxHeight = Max(@, col.stackedH),
                                  !.depth = Max(@, pool.d),
                                  !.subgroups = AddSubgroup(@, pool.sg)],
                        gap - pool.w,
                        [pool EXCEPT !.cases = SubSeq(@, stack + 1, Len(@))])
    ELSE [wall |-> w, gap |-> gap, pool |-> pool]

\* for (const pool of orphanPools), from pool k on.
RECURSIVE GapFillPools(_, _, _, _, _)
RECURSIVE GapFillPoolsNext(_, _, _, _)
GapFillPoolsNext(r, wallDept, pools, k) ==
    GapFillPools(r.wall, r.gap, wallDept, [pools EXCEPT ![k] = r.pool], k + 1)

GapFillPools(w, gap, wallDept, pools, k) ==
    IF k > Len(pools) THEN [wall |-> w, pools |-> pools]
    ELSE IF \/ Len(pools[k].cases) = 0
            \/ wpGetDept(pools[k].sg) # wallDept
            \/ DepthApart(w.depth, pools[k].d)
         THEN GapFillPools(w, gap, wallDept, pools, k + 1)
         ELSE GapFillPoolsNext(GapFillPool(w, gap, pools[k]), wallDept, pools, k)

\* The reliability of a wall after gap-fill appended columns to it.
GapFillReliability(w) == TIGHT_FIT

\* if (wall.items.length > itemsBefore) wall.reliability = ...
GapFillClose(w, r) ==
    IF Len(r.wall.items) > Len(w.items)
    THEN [wall |-> [r.wall EXCEPT !.reliability = GapFillReliability(w)], pools |-> r.pools]
    ELSE r

GapFillWall(w, pools) ==
    IF ~FillBelow(w.widthFill, WP_GAP_THRESH) THEN [wall |-> w, pools |-> pools]
    ELSE GapFillClose(w, GapFillPools(w, WP_TRUCK_WIDTH - w.widthFill,
                                      wpGetDept(w.subgroups[1]), pools, 1))

\* for (const wall of fullWalls), from wall i on.
RECURSIVE GapFillWalls(_, _, _)
RECURSIVE GapFillWallsNext(_, _, _)
GapFillWallsNext(walls, r, i) == GapFillWalls([walls EXCEPT ![i] = r.wall], r.pools, i + 1)

GapFillWalls(walls, pools, i) ==
    IF i > Len(walls) THEN [walls |-> walls, pools |-> pools]
    ELSE GapFillWallsNext(walls, GapFillWall(walls[i], pools), i)

GapFill ==
    /\ pc = "gapfill"
    /\ \E r \in {GapFillWalls(fullWalls, orphanPools, 1)} :
          /\ fullWalls' = r.walls
          /\ orphanPools' = r.pools
    /\ pc' = "rotate"
    /\ UNCHANGED <<cases, config, inventories, cur, wall, floorWalls, orphanWalls,
                   stages, placements, wallSections, violations>>

----------------------------------------------------------------------------
(* Phase 3B: rotation-aware depth-grouped FFD *)

\* Indices of the pools that still hold cases.
Remaining(pools) == SelectSeq([i \in 1..Len(pools) |-> i], LAMBDA i : Len(pools[i].cases) > 0)

\* countCompatible for the orientation (w, d) of pool k.
CountCompatible(pools, k, w, d) ==
    IF w > WP_TRUCK_WIDTH THEN -1
    ELSE SumSeq([j \in 1..Len(pools) |->
                    IF j # k /\ Len(pools[j].cases) > 0 /\ Abs(d - pools[j].d) <= 8
                    THEN Len(pools[j].cases) ELSE 0]) * 100
         + (WP_TRUCK_WIDTH \div w)

\* Variant: Phase 3B turns no pool.
TurnableNever(pool) == FALSE

\* TRUE when Phase 3B may turn the pool.
Turnable(pool) == pool.allowRotation /\ ~(2 * Abs(pool.w - pool.d) < 1)

RotatePool(pools, k) ==
    LET pool == pools[k]
        score1 == CountCompatible(pools, k, pool.w, pool.d)
        score2 == CountCompatible(pools, k, pool.d, pool.w)
    IN IF ~Turnable(pool) THEN pool
       ELSE IF score2 > score1
            THEN [pool EXCEPT !.w = pool.d, !.d = pool.w, !.rot = (pool.rot + 90) % 360,
                              !.stackedH = pool.h * pool.maxStack]
            ELSE [pool EXCEPT !.stackedH = pool.h * pool.maxStack]

\* for (const pool of remaining), from the n-th remaining pool on.
RECURSIVE RotatePools(_, _, _)
RotatePools(pools, rem, n) ==
    IF n > Len(rem) THEN pools
    ELSE RotatePools([pools EXCEPT ![rem[n]] = RotatePool(pools, rem[n])], rem, n + 1)

Rotate3B ==
    /\ pc = "rotate"
    /\ orphanPools' = RotatePools(orphanPools, Remaining(orphanPools), 1)
    /\ pc' = "ffd1"
    /\ UNCHANGED <<cases, config, inventories, cur, wall, floorWalls, fullWalls,
                   orphanWalls, stages, placements, wallSections, violations>>

\* Depth clusters of ffdByDepth: each cluster is a seed and the later pools
\* whose depth is within tol of the seed's.
RECURSIVE DepthGroups(_, _, _)
DepthGroups(pools, idxs, tol) ==
    IF idxs = <<>> THEN <<>>
    ELSE <<SelectSeq(idxs, LAMBDA j : Abs(pools[Head(idxs)].d - pools[j].d) <= tol)>>
         \o DepthGroups(pools,
                SelectSeq(idxs, LAMBDA j : ~(Abs(pools[Head(idxs)].d - pools[j].d) <= tol)),
                tol)

\* for (const pool of group) { while (...) push a column }: one wall of
\* ffdByDepth, filled from the pools grp[n..] in turn.
RECURSIVE FfdFill(_, _, _, _, _)
RECURSIVE FfdFillNext(_, _, _, _)
FfdFillNext(pools, grp, n, g) ==
    FfdFill([pools EXCEPT ![grp[n]].cases = g.rest], grp, n + 1, g.x, g.items)

FfdFill(pools, grp, n, x, items) ==
    IF n > Len(grp) THEN [pools |-> pools, x |-> x, items |-> items]
    ELSE FfdFillNext(pools, grp, n, PackColumns(pools[grp[n]], pools[grp[n]].cases, x, items))

FfdWall(items, x, reliabilityLevel) ==
    Wall(items, x, MaxHeightOf(items), MaxSeq([i \in 1..Len(items) |-> items[i].d]),
         Dedup([i \in 1..Len(items) |-> items[i].sg]), reliabilityLevel)

\* while (group.some(p => p.cases.length > 0)) { build a wall }
RECURSIVE FfdGroup(_, _, _, _)
RECURSIVE FfdGroupNext(_, _, _, _, _)
\* if (wall.items.length === 0) break; otherwise the wall is pushed.
FfdGroupNext(pools, grp, walls, reliabilityLevel, f) ==
    IF Len(f.items) = 0 THEN [pools |-> pools, walls |-> walls]
    ELSE FfdGroup(f.pools, grp, Append(walls, FfdWall(f.items, f.x, reliabilityLevel)),
                  reliabilityLevel)

FfdGroup(pools, grp, walls, reliabilityLevel) ==
    IF \A n \in 1..Len(grp) : Len(pools[grp[n]].cases) = 0
    THEN [pools |-> pools, walls |-> walls]
    ELSE FfdGroupNext(pools, grp, walls, reliabilityLevel, FfdFill(pools, grp, 1, 0, <<>>))

\* for (const group of depthGroups) { group.sort((a, b) => b.w - a.w); ... }
RECURSIVE FfdGroups(_, _, _, _)
RECURSIVE FfdGroupsNext(_, _, _)
FfdGroupsNext(r, groups, reliabilityLevel) ==
    FfdGroups(r.pools, Tail(groups), r.walls, reliabilityLevel)

FfdGroups(pools, groups, walls, reliabilityLevel) ==
    IF groups = <<>> THEN [pools |-> pools, walls |-> walls]
    ELSE FfdGroupsNext(
            FfdGroup(pools, StableSort(Head(groups), LAMBDA a, b : pools[a].w > pools[b].w),
                     walls, reliabilityLevel),
            groups, reliabilityLevel)

\* ffdByDepth(deptPools, depthTol, reliabilityLevel); deptPools are indices
\* into pools.  Returns the new walls appended to walls, and the pools.
ffdByDepth(pools, deptPools, depthTol, reliabilityLevel, walls) ==
    FfdGroups(pools,
              DepthGroups(pools, SelectSeq(deptPools, LAMBDA i : Len(pools[i].cases) > 0),
                          depthTol),
              walls, reliabilityLevel)

\* Pass 1: for (const dept of Object.keys(orphansByDept))
RECURSIVE FfdPass1Depts(_, _, _, _)
RECURSIVE FfdPass1Next(_, _, _)
FfdPass1Next(r, rem, depts) == FfdPass1Depts(r.pools, rem, Tail(depts), r.walls)

FfdPass1Depts(pools, rem, depts, walls) ==
    IF depts = <<>> THEN [pools |-> pools, walls |-> walls]
    ELSE FfdPass1Next(
            ffdByDepth(pools,
                       SelectSeq(rem, LAMBDA i : wpGetDept(pools[i].sg) = Head(depts)),
                       WP_DEPTH_STRICT, ORPHAN_SAME_DEPT, walls),
            rem, depts)

\* Departments of the pools rem in the key order of orphansByDept.
DeptsOf(pools, rem) ==
    ObjectKeys(Dedup([n \in 1..Len(rem) |-> wpGetDept(pools[rem[n]].sg)]))

\* Variant: pass 1 takes the first department only.
OrphanDeptsFirst(pools) ==
    SelectSeq(DeptsOf(pools, Remaining(pools)),
              LAMBDA d : d = DeptsOf(pools, Remaining(pools))[1])

\* Object.keys(orphansByDept)
OrphanDepts(pools) == DeptsOf(pools, Remaining(pools))

FfdPass1 ==
    /\ pc = "ffd1"
    /\ \E r \in {FfdPass1Depts(orphanPools, Remaining(orphanPools),
                               OrphanDepts(orphanPools), <<>>)} :
          /\ orphanPools' = r.pools
          /\ orphanWalls' = r.walls
    /\ pc' = "ffd2"
    /\ UNCHANGED <<cases, config, inventories, cur, wall, floorWalls, fullWalls,
                   stages, placements, wallSections, violations>>

FfdPass2 ==
    /\ pc = "ffd2"
    /\ \E r \in {ffdByDepth(orphanPools, Remaining(orphanPools), WP_DEPTH_RELAXED,
                            ORPHAN_MIXED, orphanWalls)} :
          /\ orphanPools' = r.pools
          /\ orphanWalls' = r.walls
    /\ pc' = "merge"
    /\ UNCHANGED <<cases, config, inventories, cur, wall, floorWalls, fullWalls,
                   stages, placements, wallSections, violations>>

----------------------------------------------------------------------------
(* Order of group names as strings (Array.prototype.sort without comparator) *)

\* UTF-16 code units of the group tags in use.
TagCode(tag) ==
    CASE tag = "A" -> <<65>> [] tag = "B" -> <<66>> [] tag = "F" -> <<70>>
      [] tag = "G" -> <<71>> [] tag = "W" -> <<87>>
      [] tag = "H" -> <<72>> [] tag = "P" -> <<80>> [] tag = "Q" -> <<81>>
      [] tag = "Z" -> <<90>> [] tag = "N" -> <<78>> [] tag = "L" -> <<76>>
      [] tag = "2" -> <<50>> [] tag = "10" -> <<49, 48>>
      [] tag = "LOADBAR" -> <<76, 79, 65, 68, 66, 65, 82>>

\* Decimal digits of a natural number as code units.
RECURSIVE Digits(_)
Digits(n) == IF n < 10 THEN <<48 + n>> ELSE Append(Digits(n \div 10), 48 + (n % 10))

\* Code units of a group name: the tag, then " (WxDxH)" for a split part.
SgCode(sg) ==
    IF sg.sfx = <<>> THEN TagCode(sg.tag)
    ELSE TagCode(sg.tag) \o <<32, 40>> \o Digits(sg.sfx[1]) \o <<120>>
         \o Digits(sg.sfx[2]) \o <<120>> \o Digits(sg.sfx[3]) \o <<41>>

\* a < b for sequences of code units
RECURSIVE LexLess(_, _)
LexLess(a, b) ==
    IF b = <<>> THEN FALSE
    ELSE IF a = <<>> THEN TRUE
    ELSE IF Head(a) # Head(b) THEN Head(a) < Head(b)
    ELSE LexLess(Tail(a), Tail(b))

\* [...new Set(names)].sort()
SortedNames(names) == StableSort(Dedup(names), LAMBDA a, b : LexLess(SgCode(a), SgCode(b)))

----------------------------------------------------------------------------
(* wpMergeWeakWalls *)

\* Math.abs(current.depth - weak[j].depth) > 8 keeps wall j out of the merge.
MergeDepthOk(current, other) == ~(Abs(current.depth - other.depth) > 8)

\* The wall that results from appending wall wb to wall current.
\* current.items.concat(wb.items), after item.xOff += current.widthFill
MergedItems(current, wb) ==
    current.items \o [k \in 1..Len(wb.items) |->
                         [wb.items[k] EXCEPT !.xOff = @ + current.widthFill]]

MergedWallOf(items, current, wb, allowCrossDept) ==
    Wall(items, current.widthFill + wb.widthFill, MaxHeightOf(items),
         Max(current.depth, wb.depth),
         SortedNames(current.subgroups \o wb.subgroups),
         IF allowCrossDept THEN ORPHAN_MIXED
         ELSE Max(current.reliability, wb.reliability))

MergedWall(current, wb, allowCrossDept) ==
    MergedWallOf(MergedItems(current, wb), current, wb, allowCrossDept)

\* The inner  while (changed)  loop for wall i: absorb the best partner
\* until there is none.
\* The walls j > i that pass the tests of the inner for loop.
MergeCandidates(weak, current, used, i, allowCrossDept) ==
    {j \in (i + 1)..Len(weak) :
        /\ j \notin used
        /\ allowCrossDept \/ wpWallDept(weak[j]) = wpWallDept(current)
        /\ MergeDepthOk(current, weak[j])
        /\ 2 * (current.widthFill + weak[j].widthFill) <= 2 * WP_TRUCK_WIDTH + 1
        /\ current.widthFill + weak[j].widthFill > 0}

\* bestJ: the first candidate of the largest combined fill.
MergeBest(weak, cand) ==
    CHOOSE j \in cand : \A k \in cand :
        \/ weak[j].widthFill > weak[k].widthFill
        \/ weak[j].widthFill = weak[k].widthFill /\ j <= k

RECURSIVE MergeGrow(_, _, _, _, _)
RECURSIVE MergeTake(_, _, _, _, _, _)
RECURSIVE MergeStep(_, _, _, _, _, _)
MergeTake(weak, current, used, i, allowCrossDept, bestJ) ==
    MergeGrow(weak, MergedWall(current, weak[bestJ], allowCrossDept),
              used \cup {bestJ}, i, allowCrossDept)

MergeStep(weak, current, used, i, allowCrossDept, cand) ==
    IF cand = {} THEN [wall |-> current, used |-> used]
    ELSE MergeTake(weak, current, used, i, allowCrossDept, MergeBest(weak, cand))

MergeGrow(weak, current, used, i, allowCrossDept) ==
    MergeStep(weak, current, used, i, allowCrossDept,
              MergeCandidates(weak, current, used, i, allowCrossDept))

RECURSIVE MergeFrom(_, _, _, _, _)
RECURSIVE MergeFromNext(_, _, _, _, _)
MergeFromNext(weak, r, i, merged, allowCrossDept) ==
    MergeFrom(weak, r.used, i + 1, Append(merged, r.wall), allowCrossDept)

MergeFrom(weak, used, i, merged, allowCrossDept) ==
    IF i > Len(weak) THEN merged
    ELSE IF i \in used THEN MergeFrom(weak, used, i + 1, merged, allowCrossDept)
    ELSE MergeFromNext(weak, MergeGrow(weak, weak[i], used \cup {i}, i, allowCrossDept),
                       i, merged, allowCrossDept)

MergePass(weak, allowCrossDept) ==
    MergeFrom(StableSort(weak, LAMBDA a, b : a.widthFill > b.widthFill),
              {}, 1, <<>>, allowCrossDept)

wpMergeWeakWalls(walls) ==
    IF Len(SelectSeq(walls, LAMBDA w : FillBelow(w.widthFill, WP_MIN_FILL))) < 2 THEN walls
    ELSE SelectSeq(walls, LAMBDA w : ~FillBelow(w.widthFill, WP_MIN_FILL))
         \o MergePass(MergePass(SelectSeq(walls, LAMBDA w : FillBelow(w.widthFill, WP_MIN_FILL)),
                                FALSE), TRUE)

MergeWeak ==
    /\ pc = "merge"
    /\ orphanWalls' = wpMergeWeakWalls(orphanWalls)
    /\ pc' = "absorb"
    /\ UNCHANGED <<cases, config, inventories, cur, wall, floorWalls, fullWalls,
                   orphanPools, stages, placements, wallSections, violations>>

----------------------------------------------------------------------------
(* Phase 3C: absorb very weak walls into stronger walls with gaps *)

\* Variant: a target takes any column of a depth within 8 of its own.
AbsorbFitsAnyWidth(target, item) == ~(Abs(target.depth - item.d) > 8)

\* A target takes the column when neither test of the loop skips it.
AbsorbFits(target, item) ==
    /\ ~(Abs(target.depth - item.d) > 8)
    /\ ~(2 * (target.widthFill + item.w) > 2 * WP_TRUCK_WIDTH + 1)

AbsorbInto(target, item) ==
    [target EXCEPT !.items = Append(@, [item EXCEPT !.xOff = target.widthFill]),
                   !.widthFill = @ + item.w,
                   !.maxHeight = Max(@, item.stackedH),
                   !.depth = Max(@, item.d),
                   !.subgroups = AddSubgroup(@, item.sg),
                   !.reliability = Max(@, ORPHAN_MIXED)]

\* for (const item of vw.items): all are the walls, tgts the indices of the
\* targets in order, kept the columns of the weak wall v that found no target.
RECURSIVE AbsorbItems(_, _, _, _, _)
RECURSIVE AbsorbPlace(_, _, _, _, _, _)
RECURSIVE AbsorbItem(_, _, _, _, _, _)
\* The column goes into target t.
AbsorbPlace(all, tgts, items, n, kept, t) ==
    AbsorbItems([all EXCEPT ![t] = AbsorbInto(all[t], items[n])], tgts, items, n + 1, kept)

\* fit: the positions in tgts of the targets that take column n; the first
\* one gets it.
AbsorbItem(all, tgts, items, n, kept, fit) ==
    IF fit = {} THEN AbsorbItems(all, tgts, items, n + 1, Append(kept, items[n]))
    ELSE AbsorbPlace(all, tgts, items, n, kept, tgts[CHOOSE t \in fit : \A u \in fit : t <= u])

AbsorbItems(all, tgts, items, n, kept) ==
    IF n > Len(items) THEN [all |-> all, kept |-> kept]
    ELSE AbsorbItem(all, tgts, items, n, kept,
                    {t \in 1..Len(tgts) : AbsorbFits(all[tgts[t]], items[n])})

\* The very weak wall after the loop: the columns it keeps; widthFill is
\* recomputed when columns remain.
AfterAbsorb(vw, kept) ==
    IF Len(kept) > 0
    THEN [vw EXCEPT !.items = kept,
                    !.widthFill = SumSeq([k \in 1..Len(kept) |-> kept[k].w])]
    ELSE [vw EXCEPT !.items = kept]

RECURSIVE AbsorbWalls(_, _, _, _)
RECURSIVE AbsorbWallsNext(_, _, _, _)
AbsorbWallsNext(r, tgts, veryWeak, n) ==
    AbsorbWalls([r.all EXCEPT ![veryWeak[n]] = AfterAbsorb(r.all[veryWeak[n]], r.kept)],
                tgts, veryWeak, n + 1)

\* for (const vw of veryWeak), from the n-th on.
AbsorbWalls(all, tgts, veryWeak, n) ==
    IF n > Len(veryWeak) THEN all
    ELSE AbsorbWallsNext(AbsorbItems(all, tgts, all[veryWeak[n]].items, 1, <<>>),
                         tgts, veryWeak, n)

\* Indices into orphanWalls \o fullWalls of the very weak orphan walls.
VeryWeak(oWalls) ==
    SelectSeq([i \in 1..Len(oWalls) |-> i],
              LAMBDA i : FillBelow(oWalls[i].widthFill, WP_ABSORB_THRESH))

\* Indices of allTargets: the other orphan walls, then the full walls.
AllTargets(oWalls, fWalls) ==
    SelectSeq([i \in 1..Len(oWalls) |-> i],
              LAMBDA i : ~FillBelow(oWalls[i].widthFill, WP_ABSORB_THRESH))
    \o [i \in 1..Len(fWalls) |-> Len(oWalls) + i]

Absorb ==
    /\ pc = "absorb"
    /\ \E r \in {AbsorbWalls(orphanWalls \o fullWalls, AllTargets(orphanWalls, fullWalls),
                             VeryWeak(orphanWalls), 1)} :
          /\ orphanWalls' = SelectSeq(SubSeq(r, 1, Len(orphanWalls)),
                                      LAMBDA w : Len(w.items) > 0)
          /\ fullWalls' = SubSeq(r, Len(orphanWalls) + 1, Len(r))
    /\ pc' = "rebuild"
    /\ UNCHANGED <<cases, config, inventories, cur, wall, floorWalls, orphanPools,
                   stages, placements, wallSections, violations>>

----------------------------------------------------------------------------
(* Phase 3D: column-level bin packing of the weak walls *)

\* A column taken out of a weak wall or a pool, with its department.
FreeColumn(item) ==
    [sg |-> item.sg, w |-> item.w, d |-> item.d, h |-> item.h, rot |-> item.rot,
     xOff |-> 0, stackCount |-> item.stackCount, stackedH |-> item.stackedH,
     cases |-> item.cases, dept |-> wpGetDept(item.sg)]

\* while (pool.cases.length > 0) { take a column }
RECURSIVE PoolColumns(_, _)
PoolColumns(pool, ids) ==
    IF Len(ids) = 0 THEN <<>>
    ELSE LET stack == StackSize(pool, ids)
         IN <<FreeColumn(Column(pool, 0, SubSeq(ids, 1, stack)))>>
            \o PoolColumns(pool, SubSeq(ids, stack + 1, Len(ids)))

\* The score of adding column col to the wall under construction, times
\* 1000 * 8 * WP_TRUCK_WIDTH * truckHeight (exact, where the code rounds to
\* a double).
RebuildScore(w, minDepth, col) ==
    LET newMinD == Min(minDepth, col.d)
        newMaxD == Max(w.depth, col.d)
        heightDiff == Abs(w.maxHeight - col.stackedH)
        sameDept == IF col.dept = wpWallDept(w) THEN 1 ELSE 0
    IN 600 * (w.widthFill + col.w) * 8 * TruckHeight
       + 250 * (8 - (newMaxD - newMinD)) * WP_TRUCK_WIDTH * TruckHeight
       + 100 * (TruckHeight - heightDiff) * 8 * WP_TRUCK_WIDTH
       + 5 * sameDept * 8 * WP_TRUCK_WIDTH * TruckHeight

\* Width check and flat-face check of the rebuild.
RebuildFits(w, minDepth, col) ==
    /\ ~(2 * (w.widthFill + col.w) > 2 * WP_TRUCK_WIDTH + 1)
    /\ ~(Max(w.depth, col.d) - Min(minDepth, col.d) > 8)

RebuildReliability(w) ==
    IF Len(w.subgroups) = 1 THEN ORPHAN_SAME_DEPT
    ELSE IF Cardinality({wpGetDept(w.items[i].sg) : i \in 1..Len(w.items)}) = 1
         THEN ORPHAN_SAME_DEPT ELSE ORPHAN_MIXED

\* The columns of avail that pass the width and the flat-face check (their
\* score is above the initial bestScore of -1).
RebuildFit(w, minDepth, avail) ==
    {i \in 1..Len(avail) :
        /\ RebuildFits(w, minDepth, avail[i])
        /\ RebuildScore(w, minDepth, avail[i]) > -(1000 * 8 * WP_TRUCK_WIDTH * TruckHeight)}

\* The wall after  wall.items.push(chosen)  and the updates that follow it.
RebuildAdd(w, chosen) ==
    [w EXCEPT !.items = Append(@, chosen),
              !.widthFill = @ + chosen.w,
              !.maxHeight = Max(@, chosen.stackedH),
              !.depth = Max(@, chosen.d),
              !.subgroups = AddSubgroup(@, chosen.sg)]

\* while (changed): add the best-scoring column that fits (the first of the
\* best: score > bestScore), until none fits.
RECURSIVE RebuildGrow(_, _, _)
RECURSIVE RebuildTake(_, _, _, _)
RECURSIVE RebuildStep(_, _, _, _)
RebuildTake(w, minDepth, avail, best) ==
    RebuildGrow(RebuildAdd(w, [avail[best] EXCEPT !.xOff = w.widthFill]),
                Min(minDepth, avail[best].d),
                SubSeq(avail, 1, best - 1) \o SubSeq(avail, best + 1, Len(avail)))

RebuildStep(w, minDepth, avail, fit) ==
    IF fit = {} THEN [wall |-> w, avail |-> avail]
    ELSE RebuildTake(w, minDepth, avail,
            CHOOSE i \in fit : \A k \in fit :
                \/ RebuildScore(w, minDepth, avail[i]) > RebuildScore(w, minDepth, avail[k])
                \/ /\ RebuildScore(w, minDepth, avail[i]) = RebuildScore(w, minDepth, avail[k])
                   /\ i <= k)

RebuildGrow(w, minDepth, avail) == RebuildStep(w, minDepth, avail, RebuildFit(w, minDepth, avail))

\* The wall opened with the widest remaining column as anchor.
AnchorWall(anchor) ==
    Wall(<<anchor>>, anchor.w, anchor.stackedH, anchor.d, <<anchor.sg>>, ORPHAN_MIXED)

\* Reliability and flat-top flag of a finished wall.
RebuildClose(w) ==
    [w EXCEPT !.reliability = RebuildReliability(w), !.isFlatTop = IsFlatTop(w.items)]

\* while (availableColumns.length > 0) { anchor, grow, classify }
RECURSIVE RebuildWalls(_, _)
RECURSIVE RebuildNext(_, _)
RebuildNext(r, walls) == RebuildWalls(r.avail, Append(walls, RebuildClose(r.wall)))

RebuildWalls(avail, walls) ==
    IF Len(avail) = 0 THEN walls
    ELSE RebuildNext(RebuildGrow(AnchorWall(Head(avail)), Head(avail).d, Tail(avail)), walls)

\* Columns of the rebuilt walls carry no dept field once they are wall items.
StripDept(w) ==
    [w EXCEPT !.items = [i \in 1..Len(w.items) |->
        [sg |-> w.items[i].sg, w |-> w.items[i].w, d |-> w.items[i].d, h |-> w.items[i].h,
         rot |-> w.items[i].rot, xOff |-> w.items[i].xOff,
         stackCount |-> w.items[i].stackCount, stackedH |-> w.items[i].stackedH,
         cases |-> w.items[i].cases]]]

\* orphanWalls.filter(w => w.widthFill / WP_TRUCK_WIDTH < WP_MIN_FILL)
WeakWalls3D(walls) == SelectSeq(walls, LAMBDA w : FillBelow(w.widthFill, WP_MIN_FILL))

\* orphanWalls.filter(w => w.widthFill / WP_TRUCK_WIDTH >= WP_MIN_FILL)
StrongWalls3D(walls) == SelectSeq(walls, LAMBDA w : ~FillBelow(w.widthFill, WP_MIN_FILL))

\* Step 1 and step 2: the columns of the weak walls, then those of the
\* pools, sorted by descending width.
AvailableColumns(weak, pools) ==
    StableSort(
        Flatten([i \in 1..Len(weak) |->
                    [k \in 1..Len(weak[i].items) |-> FreeColumn(weak[i].items[k])]])
        \o Flatten([i \in 1..Len(pools) |-> PoolColumns(pools[i], pools[i].cases)]),
        LAMBDA a, b : a.w > b.w)

\* Step 3 and step 4: the walls built from the columns, as wall items.
StripDepts(ws) == [i \in 1..Len(ws) |-> StripDept(ws[i])]

NewWalls3D(weak, pools) == StripDepts(RebuildWalls(AvailableColumns(weak, pools), <<>>))

Rebuild ==
    /\ pc = "rebuild"
    /\ IF Len(WeakWalls3D(orphanWalls)) >= 2
       THEN /\ orphanWalls' = StrongWalls3D(orphanWalls)
                                 \o NewWalls3D(WeakWalls3D(orphanWalls), orphanPools)
            /\ orphanPools' = [i \in 1..Len(orphanPools) |->
                                  [orphanPools[i] EXCEPT !.cases = <<>>]]
       ELSE UNCHANGED <<orphanWalls, orphanPools>>
    /\ pc' = "order"
    /\ UNCHANGED <<cases, config, inventories, cur, wall, floorWalls, fullWalls,
                   stages, placements, wallSections, violations>>

----------------------------------------------------------------------------
(* Phase 4: order the walls, group them into stages *)

\* Math.min(w.widthFill / WP_TRUCK_WIDTH, 1.0) as the numerator over
\* WP_TRUCK_WIDTH.
FillNum(w) == Min(w.widthFill, WP_TRUCK_WIDTH)

HeightRange(w) ==
    MaxSeq([i \in 1..Len(w.items) |-> w.items[i].stackedH])
    - MinSeq([i \in 1..Len(w.items) |-> w.items[i].stackedH])

\* Penalty of a wall below 50% fill.
VeryWeakPenalty(w) == IF 2 * FillNum(w) < WP_TRUCK_WIDTH THEN 5000 ELSE 0

\* rel <= 3 ? rel : 4
RelGroup(rel) == IF rel <= 3 THEN rel ELSE 4

\* Math.round(100 - maxHeight * fillRatio)
HeightInv(w) == RoundDiv(100 * WP_TRUCK_WIDTH - w.maxHeight * FillNum(w), WP_TRUCK_WIDTH)

\* Penalty of a height range above 10.
FlatPenalty(n, range) == IF n > 0 /\ range > 10 THEN RoundDiv(range * 3000, TruckHeight) ELSE 0

\* Penalty of a wall of one or two columns below 90% fill.
SparsePenalty(w) ==
    IF Len(w.items) <= 2 /\ 10 * FillNum(w) < 9 * WP_TRUCK_WIDTH THEN 2000 ELSE 0

wpWallScore(w) ==
    HeightInv(w) * 100 + DeptPri(wpWallDept(w)) * 4 + RelGroup(w.reliability)
    + FlatPenalty(Len(w.items), IF Len(w.items) > 0 THEN HeightRange(w) ELSE 0)
    - Min(Len(w.items), 4) * 50 + SparsePenalty(w) + VeryWeakPenalty(w)

\* Variant: the higher score sorts first.
WallOrderDescending(scoreA, scoreB, deptA, deptB, fillA, fillB) ==
    IF scoreA # scoreB THEN scoreB < scoreA
    ELSE IF deptA # deptB THEN deptA < deptB
    ELSE fillB < fillA

\* The comparator of the Phase 4 sort is negative.
WallOrder(scoreA, scoreB, deptA, deptB, fillA, fillB) ==
    IF scoreA # scoreB THEN scoreA < scoreB
    ELSE IF deptA # deptB THEN deptA < deptB
    ELSE fillB < fillA

WallBefore(a, b) ==
    WallOrder(wpWallScore(a), wpWallScore(b), DeptPri(wpWallDept(a)), DeptPri(wpWallDept(b)),
              a.widthFill, b.widthFill)

\* sameStage of the staging loop, against the first wall of the open stage.
SameStage(w, first) ==
    /\ w.reliability = first.reliability
    /\ wpWallDept(w) = wpWallDept(first)
    /\ Abs(w.maxHeight - first.maxHeight) <= WP_STAGE_HEIGHT_TOL

\* The staging loop: stgs are the closed stages, curGroup the open one.
RECURSIVE StageWalls(_, _, _)
StageWalls(ws, stgs, curGroup) ==
    IF ws = <<>>
    THEN IF Len(curGroup) > 0 THEN Append(stgs, [walls |-> curGroup, idx |-> Len(stgs)]) ELSE stgs
    ELSE IF Len(curGroup) > 0 /\ SameStage(Head(ws), curGroup[1])
         THEN StageWalls(Tail(ws), stgs, Append(curGroup, Head(ws)))
         ELSE StageWalls(Tail(ws),
                         IF Len(curGroup) > 0
                         THEN Append(stgs, [walls |-> curGroup, idx |-> Len(stgs)])
                         ELSE stgs,
                         <<Head(ws)>>)

Order ==
    /\ pc = "order"
    /\ stages' = StageWalls(floorWalls \o StableSort(fullWalls \o orphanWalls, WallBefore),
                            <<>>, <<>>)
    /\ pc' = "emit"
    /\ UNCHANGED <<cases, config, inventories, cur, wall, floorWalls, fullWalls,
                   orphanPools, orphanWalls, placements, wallSections, violations>>

----------------------------------------------------------------------------
(* Phase 5: coordinates and wall sections *)

\* cumulX + itemW > WP_TRUCK_WIDTH + 0.5
Spills(cumulX, itemW) == 2 * (cumulX + itemW) > 2 * WP_TRUCK_WIDTH + 1

\* Variant: every case of a stack is put on the floor.
StackZGround(item, si) == 0

\* z of the case number si (from 0) of a column.
StackZ(item, si) == item.h * si

\* Variant: the column is emitted after cumulX was advanced by its width.
PlacementXAdvanced(item, cumulX) == cumulX + item.w

\* x of the placements of a column.
PlacementX(item, cumulX) == cumulX

\* The placements of one column at (cumulX, yPos).
ColumnPlacements(item, cumulX, yPos, wallId, stageIdx) ==
    [n \in 1..item.stackCount |->
        LET c == cases[item.cases[n]]
        IN [case |-> c.index, subgroup |-> c.group,
            dept |-> IF c.dept # "" THEN c.dept ELSE wpGetDept(item.sg),
            x |-> PlacementX(item, cumulX), y |-> yPos, z |-> StackZ(item, n - 1),
            width |-> item.w, depth |-> item.d,
            height |-> IF c.height > 0 THEN c.height ELSE item.h,
            rotation |-> item.rot, wallId |-> wallId, stage |-> stageIdx]]

SpillItems(item) ==
    [n \in 1..Len(item.cases) |->
        [sg |-> item.sg, case |-> item.cases[n], w |-> item.w, d |-> item.d,
         h |-> item.h, rot |-> item.rot]]

\* for (const item of wall.items), from item n on.
RECURSIVE EmitItems(_, _, _, _, _, _, _, _)
EmitItems(items, n, cumulX, yPos, wallId, stageIdx, out, spill) ==
    IF n > Len(items) THEN [placements |-> out, spill |-> spill, cumulX |-> cumulX]
    ELSE IF Spills(cumulX, items[n].w)
         THEN EmitItems(items, n + 1, cumulX, yPos, wallId, stageIdx, out,
                        spill \o SpillItems(items[n]))
         ELSE EmitItems(items, n + 1, cumulX + items[n].w, yPos, wallId, stageIdx,
                        out \o ColumnPlacements(items[n], cumulX, yPos, wallId, stageIdx),
                        spill)

\* Variant: no wall ends behind the door.
WallEndInside(yPos, w, ps) ==
    Min(config.truckLength,
        yPos + Max(w.depth, IF Len(ps) = 0 THEN 0 ELSE MaxSeq([i \in 1..Len(ps) |-> ps[i].depth])))

\* y position behind a wall that starts at yPos.
WallEnd(yPos, w, ps) ==
    yPos + Max(w.depth, IF Len(ps) = 0 THEN 0 ELSE MaxSeq([i \in 1..Len(ps) |-> ps[i].depth]))

\* A wall section record.  label is the list of group names that the code
\* joins with " + ", section the stage index of "Stage <idx>"; the spillover
\* sections (label 'Spillover', section 'SPILLOVER') have the empty list and -1.
Section(id, label, section, yStart, yEnd, fillWidth, ps, depth) ==
    [id |-> id, label |-> label, section |-> section, yStart |-> yStart, yEnd |-> yEnd,
     wallWidth |-> fillWidth, fillPct |-> RoundDiv(fillWidth * 100, WP_TRUCK_WIDTH),
     placements |-> ps, caseCount |-> Len(ps), depth |-> depth]

\* The walls of all stages in order, each with its stage index.
StagedWalls ==
    Flatten([s \in 1..Len(stages) |->
        [k \in 1..Len(stages[s].walls) |-> [wall |-> stages[s].walls[k], idx |-> stages[s].idx]]])

\* Variant: a load-bar spacer takes a wall number.
AfterLoadBarCounted(wallIdx) == wallIdx + 1

\* The wall counter after a load-bar spacer: unchanged.
AfterLoadBar(wallIdx) == wallIdx

\* for (const stage of stages) for (const wall of stage.walls), from n on.
\* st is [yPos, wallIdx, placements, sections, spill].
\* if (wall._isLoadBar) { yPos += wall.depth; continue; }
EmitLoadBar(st, w) == [st EXCEPT !.yPos = @ + w.depth, !.wallIdx = AfterLoadBar(@)]

\* Variant: yPos is not advanced behind the wall.
EmitWallInPlace(st, w, idx, e) ==
    [yPos |-> st.yPos, wallIdx |-> st.wallIdx + 1,
     placements |-> st.placements \o e.placements,
     sections |-> Append(st.sections,
         Section(st.wallIdx, w.subgroups, idx, st.yPos, WallEnd(st.yPos, w, e.placements),
                 Max(e.cumulX, w.widthFill), e.placements, w.depth)),
     spill |-> e.spill]

\* The state after wall w of stage idx, whose item loop gave e.
EmitWall(st, w, idx, e) ==
    [yPos |-> WallEnd(st.yPos, w, e.placements), wallIdx |-> st.wallIdx + 1,
     placements |-> st.placements \o e.placements,
     sections |-> Append(st.sections,
         Section(st.wallIdx, w.subgroups, idx, st.yPos, WallEnd(st.yPos, w, e.placements),
                 Max(e.cumulX, w.widthFill), e.placements, w.depth)),
     spill |-> e.spill]

RECURSIVE EmitWalls(_, _, _)
EmitWalls(ws, n, st) ==
    IF n > Len(ws) THEN st
    ELSE IF ws[n].wall.isLoadBar
         THEN EmitWalls(ws, n + 1, EmitLoadBar(st, ws[n].wall))
         ELSE EmitWalls(ws, n + 1,
                  EmitWall(st, ws[n].wall, ws[n].idx,
                           EmitItems(ws[n].wall.items, 1, 0, st.yPos, st.wallIdx, ws[n].idx,
                                     <<>>, st.spill)))

----------------------------------------------------------------------------
(* Phase 5B: spillover walls *)

\* One pass over the items of a depth bucket: those that fit are placed left
\* to right, the others are kept for the next wall.
RECURSIVE SpillPass(_, _, _, _, _, _)
SpillPass(items, n, x, yPos, wallId, r) ==
    IF n > Len(items) THEN [r EXCEPT !.x = x]
    ELSE IF Spills(x, items[n].w)
         THEN SpillPass(items, n + 1, x, yPos, wallId, [r EXCEPT !.kept = Append(@, items[n])])
         ELSE SpillPass(items, n + 1, x + items[n].w, yPos, wallId,
                  [r EXCEPT !.placements = Append(@,
                      [case |-> items[n].case, subgroup |-> cases[items[n].case].group,
                       dept |-> IF cases[items[n].case].dept # "" THEN cases[items[n].case].dept
                                ELSE wpGetDept(items[n].sg),
                       x |-> x, y |-> yPos, z |-> 0,
                       width |-> items[n].w, depth |-> items[n].d, height |-> items[n].h,
                       rotation |-> items[n].rot, wallId |-> wallId, stage |-> -1]),
                            !.maxD = Max(@, items[n].d)])

\* while (items.length > 0) { one spillover wall }; a wall that places
\* nothing ends the bucket.
RECURSIVE SpillBucket(_, _)
RECURSIVE SpillWall(_, _)
\* r is the pass over the bucket for one wall.
SpillWall(st, r) ==
    IF Len(r.placements) = 0 THEN [st EXCEPT !.wallIdx = @ + 1]
    ELSE SpillBucket(r.kept,
            [st EXCEPT !.yPos = @ + r.maxD, !.wallIdx = @ + 1,
                       !.placements = @ \o r.placements,
                       !.sections = Append(@,
                           Section(st.wallIdx, <<>>, -1, st.yPos,
                                   st.yPos + r.maxD, r.x, r.placements, r.maxD))])

SpillBucket(items, st) ==
    IF Len(items) = 0 THEN st
    ELSE SpillWall(st, SpillPass(items, 1, 0, st.yPos, st.wallIdx,
                                 [placements |-> <<>>, kept |-> <<>>, maxD |-> 0, x |-> 0]))

\* The depth buckets are the integer keys of spillByDepth: ascending order.
RECURSIVE SpillBuckets(_, _)
RECURSIVE SpillBucketsAt(_, _, _)
SpillBucketsAt(keys, st, dKey) ==
    SpillBuckets(keys \ {dKey},
        SpillBucket(StableSort(SelectSeq(st.spill, LAMBDA it : it.d = dKey),
                               LAMBDA a, b : a.w > b.w), st))

SpillBuckets(keys, st) ==
    IF keys = {} THEN st
    ELSE SpillBucketsAt(keys, st, CHOOSE k \in keys : \A m \in keys : k <= m)

\* Phase 5B on the state that Phase 5 leaves.
SpillAll(st) == SpillBuckets({st.spill[i].d : i \in 1..Len(st.spill)}, st)

Phase5Result ==
    SpillAll(EmitWalls(StagedWalls, 1,
                 [yPos |-> 0, wallIdx |-> 0, placements |-> <<>>, sections |-> <<>>,
                  spill |-> <<>>]))

----------------------------------------------------------------------------
(* wpValidatePlacements *)

\* The intervals [a0, a0+al] and [b0, b0+bl] overlap beyond the tolerance:
\* a0 < b0 + bl - 0.5 && b0 < a0 + al - 0.5
Overlap1(a0, al, b0, bl) == 2 * a0 < 2 * (b0 + bl) - 1 /\ 2 * b0 < 2 * (a0 + al) - 1

Overlaps(a, b) ==
    /\ Overlap1(a.x, a.width, b.x, b.width)
    /\ Overlap1(a.y, a.depth, b.y, b.depth)
    /\ Overlap1(a.z, a.height, b.z, b.height)

BoundsErrors(ps, i) ==
    LET a == ps[i]
        e(what) == <<[kind |-> "BOUNDS", what |-> what, a |-> i, b |-> 0]>>
    IN (IF 2 * a.x < -1 THEN e("left") ELSE <<>>)
       \o (IF 2 * (a.x + a.width) > 2 * WP_TRUCK_WIDTH + 1 THEN e("right") ELSE <<>>)
       \o (IF 2 * a.z < -1 THEN e("floor") ELSE <<>>)
       \o (IF 2 * a.y < -1 THEN e("cab") ELSE <<>>)

OverlapErrors(ps, i) ==
    LET js == SelectSeq([k \in 1..Len(ps) |-> k], LAMBDA j : j > i /\ Overlaps(ps[i], ps[j]))
    IN [k \in 1..Len(js) |-> [kind |-> "OVERLAP", what |-> "", a |-> i, b |-> js[k]]]

FlatFaceErrors(ps) ==
    LET ids == Dedup([i \in 1..Len(ps) |-> ps[i].wallId])
        depths(id) == {ps[i].depth : i \in {k \in 1..Len(ps) : ps[k].wallId = id}}
        count(id) == Cardinality({k \in 1..Len(ps) : ps[k].wallId = id})
        delta(id) == (CHOOSE m \in depths(id) : \A o \in depths(id) : m >= o)
                     - (CHOOSE m \in depths(id) : \A o \in depths(id) : m <= o)
        err(id) == IF count(id) < 2 THEN <<>>
                   ELSE IF delta(id) > 8
                        THEN <<[kind |-> "FLAT-FACE", what |-> "CRITICAL", a |-> id, b |-> delta(id)]>>
                   ELSE IF delta(id) > 2
                        THEN <<[kind |-> "FLAT-FACE", what |-> "acceptable", a |-> id, b |-> delta(id)]>>
                   ELSE <<>>
    IN Flatten([k \in 1..Len(ids) |-> err(ids[k])])

wpValidatePlacements(ps) ==
    Flatten([i \in 1..Len(ps) |-> BoundsErrors(ps, i) \o OverlapErrors(ps, i)])
    \o FlatFaceErrors(ps)

\* Phase 5, Phase 5B, the validation and the return.
Emit ==
    /\ pc = "emit"
    /\ \E r \in {Phase5Result} :
          /\ placements' = r.placements
          /\ wallSections' = r.sections
          /\ violations' = wpValidatePlacements(r.placements)
    /\ pc' = "done"
    /\ UNCHANGED <<cases, config, inventories, cur, wall, floorWalls, fullWalls,
                   orphanPools, orphanWalls, stages>>

----------------------------------------------------------------------------
(* Specification *)

Next ==
    \/ EmptyReturn
    \/ Phase0
    \/ FloorWall
    \/ FloorNext
    \/ FloorDone
    \/ Phase2Skip
    \/ Phase2Wall
    \/ Phase2More
    \/ Phase2Close
    \/ Phase2Done
    \/ GapFill
    \/ Rotate3B
    \/ FfdPass1
    \/ FfdPass2
    \/ MergeWeak
    \/ Absorb
    \/ Rebuild
    \/ Order
    \/ Emit

Spec == Init /\ [][Next]_vars

----------------------------------------------------------------------------
(* Properties *)

Returned == pc = "done" /\ Len(cases) > 0

PlacementsOf(i) == {k \in 1..Len(placements) : placements[k].case = i}

\* Length of the common part of [a0, a0+al] and [b0, b0+bl] (negative when
\* the intervals are apart).
Common(a0, al, b0, bl) == Min(a0 + al, b0 + bl) - Max(a0, b0)

\* C1: in every result, each input case appears in exactly one placement:
\* as many placements as cases, none dropped, none emitted twice.
C1_EveryCaseOnce ==
    Returned =>
        /\ Len(placements) = Len(cases)
        /\ \A i \in 1..Len(cases) : Cardinality(PlacementsOf(i)) = 1

\* A result in which a wall section mixes groups (its columns came through
\* gap-fill, merge, absorption or rebuild) and another was built in Phase 2.
C1_Witness ==
    /\ Returned
    /\ Len(cases) >= 4
    /\ \E s \in 1..Len(wallSections) : Len(wallSections[s].label) >= 2
    /\ Len(fullWalls) >= 1

\* C2: in every result, no two distinct placements overlap by more than
\* half an inch on the x, y and z axes at once.
C2_NoOverlap ==
    Returned =>
        \A i, j \in 1..Len(placements) :
            i < j =>
                LET a == placements[i]
                    b == placements[j]
                IN \/ 2 * Common(a.x, a.width, b.x, b.width) <= 1
                   \/ 2 * Common(a.y, a.depth, b.y, b.depth) <= 1
                   \/ 2 * Common(a.z, a.height, b.z, b.height) <= 1

\* A result with stacked cases, several columns in a wall and several walls.
C2_Witness ==
    /\ Returned
    /\ \E k \in 1..Len(placements) : placements[k].z > 0
    /\ \E k \in 1..Len(placements) : placements[k].x > 0
    /\ \E k \in 1..Len(placements) : placements[k].y > 0

\* C3: in every result, every placement lies between the side walls of the
\* truck: 0 <= x and x + width <= truckWidth + 0.5.
C3_WidthBounds ==
    Returned =>
        \A k \in 1..Len(placements) :
            /\ 0 <= placements[k].x
            /\ 2 * (placements[k].x + placements[k].width) <= 2 * WP_TRUCK_WIDTH + 1

\* A result with a placement in the last ten inches of the truck width.
C3_Witness ==
    /\ Returned
    /\ \E k \in 1..Len(placements) :
          /\ placements[k].x > 0
          /\ placements[k].x + placements[k].width >= WP_TRUCK_WIDTH - 10

\* C4: in every result, every placement lies between floor and roof:
\* 0 <= z and z + height <= truckHeight + 0.5.
C4_HeightBounds ==
    Returned =>
        \A k \in 1..Len(placements) :
            /\ 0 <= placements[k].z
            /\ 2 * (placements[k].z + placements[k].height) <= 2 * TruckHeight + 1

SectionDepths(s) == {wallSections[s].placements[k].depth :
                        k \in 1..Len(wallSections[s].placements)}

\* C5: in every result, the placement depths of a wall section differ by at
\* most 8 inches.
C5_FlatFace ==
    Returned =>
        \A s \in 1..Len(wallSections) :
            \A d1, d2 \in SectionDepths(s) : d1 - d2 <= 8

\* Position of pc counted from the return.
PhaseRank ==
    CASE pc = "start" -> 12 [] pc = "floor" -> 11
      [] pc = "phase2" -> 10 [] pc = "phase2more" -> 10
      [] pc = "gapfill" -> 9 [] pc = "rotate" -> 8 [] pc = "ffd1" -> 7
      [] pc = "ffd2" -> 6 [] pc = "merge" -> 5 [] pc = "absorb" -> 4
      [] pc = "rebuild" -> 3 [] pc = "order" -> 2 [] pc = "emit" -> 1
      [] pc = "done" -> 0

\* Work left: the phases to go, then the inventory groups the floor loop or
\* the Phase 2 loop has not finished, then the cases the current group
\* still holds (a group whose first wall is built counts below one whose
\* first wall is not).
Rank ==
    LET m == 2 * Len(cases) + 4
        here == IF cur >= 1 /\ cur <= Len(inventories)
                THEN 2 * Len(inventories[cur].cases) + (IF pc = "phase2more" THEN 0 ELSE 1)
                ELSE 0
    IN PhaseRank * m * m + (Len(inventories) + 1 - cur) * m + here

\* C6: the solver terminates: every step of a run, the iterations of the
\* floor loop and of the Phase 2 continuation loop included, leaves less
\* work than it found, so no run goes on for ever.
C6_Terminates == [][Rank' < Rank]_vars

IsFloorSg(sg) == \E i \in 1..Len(inventories) : inventories[i].sg = sg /\ inventories[i].isFloor
IsFloorSection(s) == Len(s.label) = 1 /\ IsFloorSg(s.label[1])

\* C8: wall sections are numbered wp_0, wp_1, ... in emission order (load
\* bars take no number), the placements carry the number and the stage of
\* their section, stage indices never decrease along the regular sections,
\* and spillover sections (stage -1) come last.
C8_WallIds ==
    Returned =>
        /\ \A s \in 1..Len(wallSections) :
              /\ wallSections[s].id = s - 1
              /\ \A k \in 1..Len(wallSections[s].placements) :
                    /\ wallSections[s].placements[k].wallId = wallSections[s].id
                    /\ wallSections[s].placements[k].stage = wallSections[s].section
        /\ \A s, t \in 1..Len(wallSections) :
              s < t =>
                 \/ wallSections[t].section = -1
                 \/ /\ wallSections[s].section >= 0
                    /\ wallSections[s].section <= wallSections[t].section

\* A result with a load bar between two floor walls and a wall after them.
C8_Witness ==
    /\ Returned
    /\ \E i \in 1..Len(floorWalls) : floorWalls[i].isLoadBar
    /\ Len(wallSections) >= 3
    /\ wallSections[3].section >= 2

\* C9: floor wall sections come first and start at y = 0; a gap of exactly
\* 2 inches lies between consecutive floor walls of one floor group and
\* nowhere else; every placement lies in the y range of its section; four
\* 45x100 floor cases followed by small cases give floor walls at 0..100 and
\* 102..202 and the next wall at 202.
C9_FloorFirst ==
    Returned =>
        /\ (\E s \in 1..Len(wallSections) : IsFloorSection(wallSections[s]))
              => IsFloorSection(wallSections[1]) /\ wallSections[1].yStart = 0
        /\ \A s, t \in 1..Len(wallSections) :
              IsFloorSection(wallSections[s]) /\ ~IsFloorSection(wallSections[t])
                  => wallSections[s].yEnd <= wallSections[t].yStart
        /\ \A s \in 1..(Len(wallSections) - 1) :
              wallSections[s + 1].yStart - wallSections[s].yEnd =
                  IF /\ IsFloorSection(wallSections[s])
                     /\ IsFloorSection(wallSections[s + 1])
                     /\ wallSections[s].label = wallSections[s + 1].label
                  THEN 2 ELSE 0
        /\ \A s \in 1..Len(wallSections) :
              \A k \in 1..Len(wallSections[s].placements) :
                  /\ wallSections[s].placements[k].y = wallSections[s].yStart
                  /\ wallSections[s].placements[k].y + wallSections[s].placements[k].depth
                        <= wallSections[s].yEnd
        /\ Len(placements) = SumSeq([s \in 1..Len(wallSections) |-> wallSections[s].caseCount])
        /\ ( /\ Len(cases) >= 5
             /\ \A i \in 1..4 : cases[i].isFloor /\ cases[i].width = 45 /\ cases[i].depth = 100
             /\ \A i \in 5..Len(cases) : ~cases[i].isFloor /\ cases[i].width <= 30 )
              => /\ wallSections[1].yStart = 0 /\ wallSections[1].yEnd = 100
                 /\ wallSections[2].yStart = 102 /\ wallSections[2].yEnd = 202
                 /\ wallSections[3].yStart = 202

\* The result for four 45x100 floor cases and small cases behind them.
C9_Witness ==
    /\ Returned
    /\ Len(cases) >= 5
    /\ \A i \in 1..4 : cases[i].isFloor /\ cases[i].width = 45
    /\ \A i \in 5..Len(cases) : ~cases[i].isFloor /\ cases[i].width <= 30
    /\ Len(wallSections) >= 3
    /\ IsFloorSection(wallSections[2])
    /\ ~IsFloorSection(wallSections[3])

\* A case wider than the truck that may not be rotated.
WideUnrotatable(c) == c.width > WP_TRUCK_WIDTH /\ ~c.allowRotation

\* The result holds case i in a spillover section (stage -1) behind every
\* regular section, and a BOUNDS violation names it.
SpilloverReported(i) ==
    /\ \E k \in 1..Len(placements) :
          /\ placements[k].case = i
          /\ placements[k].stage = -1
          /\ \A j \in 1..Len(placements) :
                placements[j].stage >= 0 => placements[j].y < placements[k].y
    /\ \E v \in 1..Len(violations) :
          /\ violations[v].kind = "BOUNDS"
          /\ placements[violations[v].a].case = i

\* C10: when the cases wider than the truck are non-floor cases that may
\* not be rotated, the solver still returns (every step leaves less work),
\* and the result has the case in a spillover section with a BOUNDS violation.
C10_WideCase ==
    [][(/\ \E i \in 1..Len(cases) : WideUnrotatable(cases[i])
        /\ \A i \in 1..Len(cases) :
              cases[i].width > WP_TRUCK_WIDTH => WideUnrotatable(cases[i]) /\ ~cases[i].isFloor)
          => /\ Rank' < Rank
             /\ pc' = "done" =>
                   \A i \in 1..Len(cases) : WideUnrotatable(cases[i]) => SpilloverReported(i)']_vars

\* A case with a dimension that is not positive.
InvalidCase(c) == c.width <= 0 \/ c.depth <= 0 \/ c.height <= 0

\* C11: a case with a width, depth or height <= 0 is skipped: the result
\* holds it in no placement and in no wall section.
C11_InvalidSkipped ==
    Returned =>
        \A i \in 1..Len(cases) :
            InvalidCase(cases[i]) =>
                /\ PlacementsOf(i) = {}
                /\ \A s \in 1..Len(wallSections) :
                      \A k \in 1..Len(wallSections[s].placements) :
                          wallSections[s].placements[k].case # i

\* Summed depth of the walls and load bars in loading order.
SummedDepth == SumSeq([n \in 1..Len(StagedWalls) |-> StagedWalls[n].wall.depth])

\* The input is q floor cases of 45 x 100, one group.
FloorPanels(q) ==
    /\ Len(cases) = q
    /\ \A i \in 1..q : cases[i].isFloor /\ cases[i].group = "F"

\* C12: depth overflow is not an error.  When the summed depth of the walls
\* exceeds truckLength the solver returns with every case placed once, the
\* sections follow each other at the depths of their walls and the last one
\* ends behind truckLength.  The result does not depend on truckLength: q
\* floor panels give the sections 0..100, 102..202, 204..304 of two panels
\* each, whether the truck is 240 or 320 long.
C12_DepthOverflow ==
    Returned =>
        /\ SummedDepth > config.truckLength =>
              /\ Len(placements) = Len(cases)
              /\ \A i \in 1..Len(cases) : Cardinality(PlacementsOf(i)) = 1
              /\ wallSections[Len(wallSections)].yEnd = SummedDepth
              /\ wallSections[Len(wallSections)].yEnd > config.truckLength
              /\ violations = wpValidatePlacements(placements)
        /\ \A q \in 1..Len(cases) :
              FloorPanels(q) =>
                  /\ Len(wallSections) = (q + 1) \div 2
                  /\ \A s \in 1..Len(wallSections) :
                        /\ wallSections[s].yStart = 102 * (s - 1)
                        /\ wallSections[s].yEnd = 102 * (s - 1) + 100
                        /\ wallSections[s].caseCount = Min(2, q - 2 * (s - 1))

\* A result whose last section ends behind the door of the truck.
C12_Witness ==
    /\ Returned
    /\ SummedDepth > config.truckLength
    /\ Len(wallSections) >= 3
    /\ wallSections[1].yEnd <= config.truckLength

\* C13: for an empty case list the solver returns empty placements and
\* empty wallSections whatever the config: it goes from the entry to the
\* return, no phase runs and no collection of a phase is filled.
C13_EmptyInput ==
    Len(cases) = 0 =>
        /\ pc \in {"start", "done"}
        /\ placements = <<>> /\ wallSections = <<>> /\ violations = <<>>
        /\ inventories = <<>> /\ floorWalls = <<>> /\ fullWalls = <<>>
        /\ orphanPools = <<>> /\ orphanWalls = <<>> /\ stages = <<>>

\* The solver has returned for an empty case list and the longer truck.
C13_Witness ==
    /\ Len(cases) = 0
    /\ pc = "done"
    /\ config.truckLength = 320
    /\ placements = <<>>

\* The input is one non-floor group of identical cases.
SingleGroup ==
    /\ Len(cases) >= 1
    /\ ~cases[1].isFloor
    /\ \A i \in 1..Len(cases) : cases[i] = [cases[1] EXCEPT !.index = i]

\* Columns of width w that fit side by side.
PerRow(w) == WP_TRUCK_WIDTH \div w

\* The group fills exactly one wall: floor(truckWidth / w) * maxStack = N,
\* w the width after the rotation oracle.
ExactlyOneWall ==
    /\ SingleGroup
    /\ wpBestRotation(cases[1])[1] <= WP_TRUCK_WIDTH
    /\ PerRow(wpBestRotation(cases[1])[1]) * wpResolveStacking(cases[1])[2] = Len(cases)

\* The result is one wall of reliability FULL_WALL with all the cases.
OneFullWall ==
    /\ Len(StagedWalls) = 1
    /\ StagedWalls[1].wall.reliability = FULL_WALL
    /\ Len(CasesOfItems(StagedWalls[1].wall.items)) = Len(cases)
    /\ Len(wallSections) = 1
    /\ wallSections[1].caseCount = Len(cases)

\* C14 as stated: every single non-floor group of N identical cases with
\* floor(truckWidth / w) * maxStack = N gives exactly one wall, of all N
\* cases and of reliability FULL_WALL, for every width w <= truckWidth.
C14_OneFullWall == Returned /\ ExactlyOneWall => OneFullWall

\* C14 amended: the same for the widths w whose row fills at least WP_MIN_FILL
\* of the truck width, floor(truckWidth / w) * w >= 0.80 * truckWidth.
C14_OneFullWallAtMinFill ==
    ( /\ Returned
      /\ ExactlyOneWall
      /\ ~FillBelow(PerRow(wpBestRotation(cases[1])[1]) * wpBestRotation(cases[1])[1],
                    WP_MIN_FILL) )
        => OneFullWall

\* The result for six cases of 30 x 30 stacked two high in three columns.
C14_Witness ==
    /\ Returned
    /\ ExactlyOneWall
    /\ Len(cases) = 6
    /\ Len(StagedWalls[1].wall.items) = 3
    /\ StagedWalls[1].wall.reliability = FULL_WALL

\* Scenario S4: the case list is two cases of group P (30 x 20), then two
\* of group Q (30 x 24), rotation allowed for all.
ScenarioS4 ==
    /\ Len(cases) = 4
    /\ cases[1].group = "P" /\ cases[2].group = "P"
    /\ cases[3].group = "Q" /\ cases[4].group = "Q"
    /\ \A i \in 1..4 : cases[i].allowRotation

\* C15: in scenario S4 each group forms a weak wall in Phase 2 (no full wall
\* is kept, the two cases of each group go to an orphan pool), and the four
\* cases end in a single wall section, whose wall has reliability
\* ORPHAN_SAME_DEPT when P and Q have the same department and ORPHAN_MIXED
\* when their departments differ.
C15_ScenarioS4 ==
    ScenarioS4 =>
        /\ pc = "gapfill" =>
              /\ fullWalls = <<>>
              /\ Len(orphanPools) = 2
              /\ \A k \in 1..2 : Len(orphanPools[k].cases) = 2
              /\ orphanPools[1].sg # orphanPools[2].sg
        /\ pc = "done" =>
              /\ Len(wallSections) = 1
              /\ wallSections[1].caseCount = 4
              /\ Len(StagedWalls) = 1
              /\ StagedWalls[1].wall.reliability =
                    IF DeptOf(cases[1]) = DeptOf(cases[3])
                    THEN ORPHAN_SAME_DEPT ELSE ORPHAN_MIXED

\* The result of scenario S4 for two departments.
C15_Witness ==
    /\ ScenarioS4
    /\ pc = "done"
    /\ DeptOf(cases[1]) # DeptOf(cases[3])
    /\ Len(wallSections) = 1

\* Placement j stands on placement k: same wall, same x, higher z.
StandsOn(j, k) ==
    /\ placements[j].wallId = placements[k].wallId
    /\ placements[j].x = placements[k].x
    /\ placements[j].z > placements[k].z

\* C16: a case with stackable = false is never part of a stack (z = 0 and no
\* placement above it in its column), whatever its maxStack; a stackable
\* case stands in a stack of at most maxStack cases.
C16_StackableOnly ==
    Returned =>
        \A k \in 1..Len(placements) :
            IF cases[placements[k].case].stackable
            THEN Cardinality({j \in 1..Len(placements) :
                                 /\ placements[j].wallId = placements[k].wallId
                                 /\ placements[j].x = placements[k].x})
                    <= wpResolveStacking(cases[placements[k].case])[2]
            ELSE /\ placements[k].z = 0
                 /\ \A j \in 1..Len(placements) : ~StandsOn(j, k)

\* C17: every case with allowRotation = false is placed unrotated: placement
\* width, depth and rotation are the case's own, also when cases of the same
\* group and dimensions allow rotation.
C17_NoRotation ==
    Returned =>
        \A k \in 1..Len(placements) :
            ~cases[placements[k].case].allowRotation =>
                /\ placements[k].width = cases[placements[k].case].width
                /\ placements[k].depth = cases[placements[k].case].depth
                /\ placements[k].rotation = cases[placements[k].case].rotation

\* Position of the first case of department d in the case list.
FirstOfDept(d) == CHOOSE i \in 1..Len(cases) :
                      DeptOf(cases[i]) = d /\ \A j \in 1..(i - 1) : DeptOf(cases[j]) # d

\* C18: buildDeptPriority gives an injective map from the departments
\* present to positive integers; a seeded tag keeps its seed (LX=1, SON=2,
\* CARP=3, VDO=4, PROPS=5, COST=6, ADM=7); the other tags are appended: each
\* is above every seeded tag present, in order of first appearance.
C18_DeptPriority ==
    LET pri == config.deptPriority
        present == {DeptOf(cases[i]) : i \in 1..Len(cases)}
        seed == [d \in {"LX", "SON", "CARP", "VDO", "PROPS", "COST", "ADM"} |->
                    CASE d = "LX" -> 1 [] d = "SON" -> 2 [] d = "CARP" -> 3 [] d = "VDO" -> 4
                      [] d = "PROPS" -> 5 [] d = "COST" -> 6 [] d = "ADM" -> 7]
    IN /\ DOMAIN pri = present
       /\ \A d \in present : pri[d] >= 1
       /\ \A d, e \in present : d # e => pri[d] # pri[e]
       /\ \A d \in present \cap DOMAIN seed : pri[d] = seed[d]
       /\ \A d \in present \ DOMAIN seed :
             /\ \A e \in present \cap DOMAIN seed : pri[d] > pri[e]
             /\ \A e \in present \ DOMAIN seed :
                   FirstOfDept(d) < FirstOfDept(e) => pri[d] < pri[e]

\* The walls behind the floor walls in loading order: the sorted walls.
SortedWalls ==
    [n \in 1..(Len(StagedWalls) - Len(floorWalls)) |-> StagedWalls[Len(floorWalls) + n].wall]

\* Fill ratio of wall a above that of wall b (both over the truck width).
FillAbove(a, b) == a.widthFill > b.widthFill

\* C19: the non-floor, non-spillover wall sections are emitted from cab to
\* door in non-decreasing order of the Phase 4 score; walls of equal score
\* by increasing department priority, and then by decreasing fill ratio.
\* The sections behind the floor sections are those of the sorted walls,
\* one each, in the same order.
C19_ScoreOrder ==
    Returned =>
        /\ \A i, j \in 1..Len(SortedWalls) :
              i < j =>
                 /\ wpWallScore(SortedWalls[i]) <= wpWallScore(SortedWalls[j])
                 /\ wpWallScore(SortedWalls[i]) = wpWallScore(SortedWalls[j]) =>
                       /\ DeptPri(wpWallDept(SortedWalls[i])) <= DeptPri(wpWallDept(SortedWalls[j]))
                       /\ DeptPri(wpWallDept(SortedWalls[i])) = DeptPri(wpWallDept(SortedWalls[j]))
                             => ~FillAbove(SortedWalls[j], SortedWalls[i])
        /\ \A n \in 1..Len(SortedWalls) :
              \E s \in 1..Len(wallSections) :
                 /\ wallSections[s].section >= 0
                 /\ Cardinality({r \in 1..s : wallSections[r].section >= 0
                                              /\ ~IsFloorSection(wallSections[r])}) = n
                 /\ ~IsFloorSection(wallSections[s])
                 /\ wallSections[s].label = SortedWalls[n].subgroups
                 /\ [k \in 1..Len(wallSections[s].placements) |->
                        wallSections[s].placements[k].case] = CasesOfItems(SortedWalls[n].items)

\* A result of three walls or more behind the floor walls that the Phase 4
\* sort has put in another order than Phase 2 and Phase 3 built them in.
C19_Witness ==
    /\ Returned
    /\ Len(SortedWalls) >= 3
    /\ SortedWalls # fullWalls \o orphanWalls
    /\ wpWallScore(SortedWalls[1]) < wpWallScore(SortedWalls[Len(SortedWalls)])

\* C20: at the end of Phase 2 every wall kept in the full-wall list has
\* widthFill / truckWidth >= 0.80 and reliability FULL_WALL; a wall below
\* 0.80, the last of several walls of a group too, is dissolved into the
\* group's orphan pool.
C20_FullWallsFull ==
    pc = "gapfill" =>
        \A i \in 1..Len(fullWalls) :
            /\ ~FillBelow(fullWalls[i].widthFill, WP_MIN_FILL)
            /\ fullWalls[i].reliability = FULL_WALL

----------------------------------------------------------------------------
(* Reliability through gap-fill, merge and absorption *)

\* Wall b of the later list holds a case that wall a of the earlier list held.
Continues(a, b) ==
    Range(CasesOfItems(a.items)) \cap Range(CasesOfItems(b.items)) # {}

\* No wall of the later list is more reliable (has a smaller reliability
\* number) than a wall of the earlier list whose cases it holds.
NotPromoted(before, after) ==
    \A i \in 1..Len(before) : \A j \in 1..Len(after) :
        Continues(before[i], after[j]) => after[j].reliability >= before[i].reliability

\* C21: the reliability of a wall is never promoted: each step of gap-fill
\* (Phase 2.5), weak-wall merge (Phase 3B) and absorption (Phase 3C) leaves
\* the reliability number of every wall equal or larger, also when gap-fill
\* sets TIGHT_FIT.
C21_NeverPromoted ==
    [][(pc \in {"gapfill", "merge", "absorb"}) =>
          NotPromoted(fullWalls \o orphanWalls, fullWalls' \o orphanWalls')]_vars

----------------------------------------------------------------------------
(* Department of a split group *)

\* The departments of the cases that carry group tag tag.
DeptsOfTag(tag) == {DeptOf(cases[i]) : i \in {j \in 1..Len(cases) : cases[j].group = tag}}

\* C22: for every inventory group that Phase 0 produced, also a part of a
\* split group that is named with a dimension suffix, wpGetDept returns the
\* department of the cases carrying the original group tag, and so the
\* majority department of a wall built from one such group is that department.
C22_SplitGroupDept ==
    /\ \A i \in 1..Len(inventories) :
          wpGetDept(inventories[i].sg) \in DeptsOfTag(inventories[i].sg.tag)
    /\ \A w \in Range(fullWalls) \cup Range(orphanWalls) :
          Len(w.subgroups) = 1 => wpWallDept(w) \in DeptsOfTag(w.subgroups[1].tag)

----------------------------------------------------------------------------
(* Order of the inventory groups and of the departments *)

\* The group tags of the cases in the order of their first appearance.
TagsInOrder == Dedup([i \in 1..Len(cases) |-> CaseGroup(cases[i])])

\* The departments of the pools that hold cases, in the order of their first
\* appearance among the pools.
PoolDeptsInOrder ==
    Dedup([n \in 1..Len(Remaining(orphanPools)) |->
              wpGetDept(orphanPools[Remaining(orphanPools)[n]].sg)])

\* C23: grouped data is traversed in insertion order: Phase 0 creates
\* the inventory groups in the order in which the group tags first appear
\* among the cases, for every tag string ("10" and "2" too), and Phase 3B
\* takes the departments in the order of their first appearance among the
\* orphan pools.
C23_InsertionOrder ==
    /\ pc # "start" /\ ~IsEmptyInput(cases) =>
          Dedup([i \in 1..Len(inventories) |-> inventories[i].sg.tag]) = TagsInOrder
    /\ pc = "ffd1" => OrphanDepts(orphanPools) = PoolDeptsInOrder

----------------------------------------------------------------------------
(* Walls below half fill in the loading order *)

\* widthFill / truckWidth < 0.50
BelowHalf(w) == 2 * w.widthFill < WP_TRUCK_WIDTH

\* C24: in the Phase 4 order every non-floor wall whose fill is below 0.50
\* of the truck width comes after every non-floor wall whose fill is 0.50 or
\* more, whatever the heights, column counts, departments and reliabilities.
C24_VeryWeakLast ==
    pc \in {"emit", "done"} =>
        \A i \in 1..Len(SortedWalls) : \A j \in 1..Len(SortedWalls) :
            BelowHalf(SortedWalls[i]) /\ ~BelowHalf(SortedWalls[j]) => j < i

----------------------------------------------------------------------------
(* Stage index of adjacent walls *)

\* The walls that Phase 5 emits as sections, in order, each with its stage
\* index: the staged walls without the load-bar spacers.
EmittedWalls == SelectSeq(StagedWalls, LAMBDA e : ~e.wall.isLoadBar)

\* Same reliability, same majority department, heights at most 15 apart.
Alike(a, b) ==
    /\ a.reliability = b.reliability
    /\ wpWallDept(a) = wpWallDept(b)
    /\ Abs(a.maxHeight - b.maxHeight) <= WP_STAGE_HEIGHT_TOL

\* C25: two walls that are adjacent in the emitted order (load-bar spacers
\* are not walls) get the same stage index exactly when they have the same
\* reliability, the same majority department and maxHeights that differ by
\* at most 15.
C25_AdjacentStage ==
    pc \in {"emit", "done"} =>
        \A n \in 1..(Len(EmittedWalls) - 1) :
            (EmittedWalls[n].idx = EmittedWalls[n + 1].idx)
                <=> Alike(EmittedWalls[n].wall, EmittedWalls[n + 1].wall)

----------------------------------------------------------------------------
(* Rotation oracle of Phase 0 *)

\* The oracle is examined on sides given in 1/OracleUnit of an inch.
OracleUnit == 2

\* Sides from 20" to 35".
OracleSides == (20 * OracleUnit)..(35 * OracleUnit)

\* Cases per row and filled width of a row of cases of width w.
RowCount(w) == (WP_TRUCK_WIDTH * OracleUnit) \div w
RowFill(w) == RowCount(w) * w

\* Width chosen for a case of width w and depth d that may be rotated.
ChosenWidth(w, d) ==
    IF TurnsAt(w, d, WP_TRUCK_WIDTH * OracleUnit, OracleUnit) THEN d ELSE w

\* C26: for every group whose first case allows rotation and has sides that
\* differ by 0.5" or more, the orientation chosen in Phase 0 fills at least
\* as much of a row as the other one and, when both fill the same, holds at
\* least as many cases per row; the 90 degree orientation is chosen only
\* when it is strictly better on (fill, cases per row).
C26_RotationOracle ==
    pc = "start" =>
        \A w \in OracleSides : \A d \in OracleSides :
            2 * Abs(w - d) >= OracleUnit =>
                LET cw == ChosenWidth(w, d)
                    ow == IF cw = w THEN d ELSE w
                IN /\ RowFill(cw) >= RowFill(ow)
                   /\ RowFill(cw) = RowFill(ow) => RowCount(cw) >= RowCount(ow)
                   /\ cw = d => \/ RowFill(d) > RowFill(w)
                                \/ RowFill(d) = RowFill(w) /\ RowCount(d) > RowCount(w)

----------------------------------------------------------------------------
(* Derived attributes of the walls that enter Phase 5 *)

\* depth and maxHeight of wall w are the maxima over its columns.
DerivedFresh(w) ==
    /\ w.depth = MaxSeq([i \in 1..Len(w.items) |-> w.items[i].d])
    /\ w.maxHeight = MaxSeq([i \in 1..Len(w.items) |-> w.items[i].stackedH])

\* C27: at the entry to Phase 5 the depth of every wall is the largest
\* depth of its columns and its maxHeight the largest stacked height of its
\* columns, also for a weak wall that lost columns to absorption in Phase 3C;
\* hence every wall section is as deep (yEnd - yStart) as its deepest
\* placement.
C27_DerivedAttributes ==
    /\ pc \in {"emit", "done"} =>
          \A n \in 1..Len(EmittedWalls) :
              Len(EmittedWalls[n].wall.items) > 0 => DerivedFresh(EmittedWalls[n].wall)
    /\ Returned =>
          \A s \in 1..Len(wallSections) :
              Len(wallSections[s].placements) > 0 /\ wallSections[s].section >= 0 =>
                  wallSections[s].yEnd - wallSections[s].yStart
                      = MaxSeq([k \in 1..Len(wallSections[s].placements) |->
                                   wallSections[s].placements[k].depth])

----------------------------------------------------------------------------
(* Width of the walls that enter Phase 5 *)

\* widthFill of wall w is the sum of the widths of its columns and at most
\* truckWidth + 0.5.
WidthKept(w) ==
    /\ w.widthFill = SumSeq([i \in 1..Len(w.items) |-> w.items[i].w])
    /\ 2 * w.widthFill <= 2 * WP_TRUCK_WIDTH + 1

\* C28: every wall that reaches Phase 5 has widthFill equal to the sum of the
\* widths of its columns and at most truckWidth + 0.5, after any sequence of
\* gap-fill, FFD, merge, absorption and rebuild; so no column takes the
\* spillover branch and no run that returns emits a section or a placement
\* of stage -1.
C28_NoSpillover ==
    /\ pc \in {"emit", "done"} =>
          \A n \in 1..Len(EmittedWalls) : WidthKept(EmittedWalls[n].wall)
    /\ Returned =>
          /\ \A s \in 1..Len(wallSections) : wallSections[s].section >= 0
          /\ \A k \in 1..Len(placements) : placements[k].stage >= 0
          /\ Len(wallSections) = Len(EmittedWalls)

\* C28 witness: a returned run with a wall of two groups that absorption or a
\* cross-department merge filled to within 2" of the truck width.
C28_Witness ==
    /\ Returned
    /\ \E n \in 1..Len(EmittedWalls) :
          /\ EmittedWalls[n].wall.reliability = ORPHAN_MIXED
          /\ Len(EmittedWalls[n].wall.subgroups) >= 2
          /\ EmittedWalls[n].wall.widthFill >= WP_TRUCK_WIDTH - 2

----------------------------------------------------------------------------
(* The orphan pools behind pass 1 of Phase 3B *)

\* No pool holds a case.
PoolsEmpty(pools) == \A k \in 1..Len(pools) : Len(pools[k].cases) = 0

\* Some wall of the list has reliability ORPHAN_MIXED.
HasMixed(walls) == \E i \in 1..Len(walls) : walls[i].reliability = ORPHAN_MIXED

\* C29: after pass 1 of Phase 3B every orphan pool is empty: pass 2 never
\* receives a case and builds no wall, the residual-pool step of Phase 3D
\* finds no case, and a wall of reliability ORPHAN_MIXED first arises in the
\* weak-wall merge, in absorption or in the rebuild.
C29_Pass1EmptiesPools ==
    [][/\ pc = "ffd1" => PoolsEmpty(orphanPools') /\ ~HasMixed(orphanWalls')
       /\ pc = "ffd2" => orphanWalls' = orphanWalls /\ orphanPools' = orphanPools
       /\ pc = "rebuild" => PoolsEmpty(orphanPools)
       /\ ~HasMixed(fullWalls \o orphanWalls) /\ HasMixed(fullWalls' \o orphanWalls')
             => pc \in {"merge", "absorb", "rebuild"}]_vars

\* C29 witness: pass 1 has built walls of two departments out of at least
\* two pools and left every pool empty.
C29_Witness ==
    /\ pc = "ffd2"
    /\ Len(orphanPools) >= 2
    /\ PoolsEmpty(orphanPools)
    /\ \E i \in 1..Len(orphanWalls) : \E j \in 1..Len(orphanWalls) :
          wpWallDept(orphanWalls[i]) # wpWallDept(orphanWalls[j])

----------------------------------------------------------------------------
(* Geometry of the wall sections *)

\* The placements of section s stand at its yStart and end before its yEnd.
InsideSection(s) ==
    \A k \in 1..Len(wallSections[s].placements) :
        /\ wallSections[s].placements[k].y = wallSections[s].yStart
        /\ wallSections[s].placements[k].y + wallSections[s].placements[k].depth
              <= wallSections[s].yEnd

\* The columns of section s are packed from x = 0 to the right without a
\* gap: the first placement stands at x = 0, and each next one stands in the
\* same column or right behind the column before it.
PackedFromLeft(s) ==
    LET ps == wallSections[s].placements
    IN /\ Len(ps) > 0 => ps[1].x = 0
       /\ \A k \in 1..(Len(ps) - 1) :
             \/ ps[k + 1].x = ps[k].x /\ ps[k + 1].width = ps[k].width
             \/ ps[k + 1].x = ps[k].x + ps[k].width

\* Placement k is recorded in exactly one section, the one its wallId names.
InOneSection(k) ==
    /\ Cardinality({s \in 1..Len(wallSections) :
                       \E n \in 1..Len(wallSections[s].placements) :
                           wallSections[s].placements[n] = placements[k]}) = 1
    /\ \A s \in 1..Len(wallSections) :
          (wallSections[s].id = placements[k].wallId)
              <=> (\E n \in 1..Len(wallSections[s].placements) :
                      wallSections[s].placements[n] = placements[k])

\* C30: in the returned wall sections, in order, every placement stands at
\* the yStart of its section and ends at or before its yEnd, the columns of a
\* section are packed from x = 0 to the right without gaps, every section
\* starts at or behind the end of the section before it, so the y-ranges of
\* the sections do not overlap, and every placement belongs to exactly one
\* section, the one its wallId names.
C30_SectionGeometry ==
    Returned =>
        /\ \A s \in 1..Len(wallSections) : InsideSection(s) /\ PackedFromLeft(s)
        /\ \A s \in 1..Len(wallSections) : \A u \in 1..Len(wallSections) :
              s < u => wallSections[s].yEnd <= wallSections[u].yStart
        /\ \A k \in 1..Len(placements) : InOneSection(k)

\* C30 witness: a returned run of at least two sections, one of them with a
\* stack of two cases and a second column.
C30_Witness ==
    /\ Returned
    /\ Len(wallSections) >= 2
    /\ \E s \in 1..Len(wallSections) :
          \E k \in 1..Len(wallSections[s].placements) :
              \E n \in 1..Len(wallSections[s].placements) :
                  /\ wallSections[s].placements[k].z > 0
                  /\ wallSections[s].placements[n].x > 0
====
